---- MODULE Spec2Model ----
(***************************************************************************)
(* Markdown-to-document rendering pipeline of AI-Booksmith:                *)
(*   processInlineContent / processMarkdownToDocx   (flow-document, DOCX)  *)
(*   renderInlineTokens / renderMarkdown            (drawing surface, PDF) *)
(*   exportAsDocxService / exportAsPDFService       (document assembler)   *)
(* Text is a sequence of one-character strings; token indices are 0-based  *)
(* as in the source (At(j) reads tokens[j]).                               *)
(***************************************************************************)
EXTENDS Integers, Sequences, FiniteSets, TLC

VARIABLES
    children,        \* processInlineContent: argument
    textRuns,        \* processInlineContent: returned runs
    ipc,             \* inline harness position: "start" | "done"
    markdown,        \* processMarkdownToDocx: argument (source chunks)
    tokens,          \* processMarkdownToDocx: md.parse(markdown, {})
    i,               \* processMarkdownToDocx: loop cursor (0-based)
    paragraphs,      \* processMarkdownToDocx: output blocks
    origin,          \* history: origin[p] = cursor value that pushed paragraphs[p]
    inList,
    listType,        \* "bullet" | "ordered" | "null"
    orderedCounter,
    rpc,             \* "idle" | "called" | "loop" | "returned" | "threw"
    pdfTokens,       \* renderMarkdown: md.parse(markdown, {})
    pdfI,            \* renderMarkdown: loop cursor (0-based)
    pdfInList,
    pdfListType,
    orderedListCounter,
    pdfPc,           \* "idle" | "called" | "loop" | "returned" | "threw"
    doc,             \* the PDFDocument drawn on
    callsLeft,       \* caller: render calls still to make
    results,         \* caller: the block sequences returned so far
    eventLoop,       \* the requests in flight: which one runs, the one suspended
    format,          \* which export route was requested: "docx" | "pdf" | "none"
    request,         \* [bookId, userId] handed to the export service
    book,            \* the stored book that findBookById(bookId) resolves to
    sections,        \* exportAsDocxService: the Paragraph[] being assembled
    index,           \* forEach index of the chapter being exported (0-based)
    xpc,             \* position in the export service
    thrown,          \* the APIError the service ended with, if any
    res,             \* the HTTP response
    marks,           \* history: where each part of the output starts
    rendered,        \* history: what each chapter's render call returned
    req,             \* the routed request: [route, params, userId]
    cpc,             \* position in the export controller
    nextArg,         \* the error handed to next(), if any
    attempts,        \* history: the responses the controller itself tried to send
    refreshTokens,   \* the RefreshToken collection: the tokens stored
    refreshCalls     \* the refreshTokenService calls in flight

inlineVars == <<children, textRuns, ipc>>
docxVars   == <<markdown, tokens, i, paragraphs, origin, inList, listType,
                orderedCounter, rpc>>
pdfVars    == <<pdfTokens, pdfI, pdfInList, pdfListType, orderedListCounter, pdfPc, doc>>
controllerVars == <<req, cpc, nextArg, attempts>>
authVars   == <<refreshTokens, refreshCalls>>
callerVars == <<callsLeft, results, eventLoop, controllerVars, authVars>>
exportVars == <<format, request, book, sections, index, xpc, thrown, res, marks, rendered>>
vars == <<inlineVars, docxVars, pdfVars, callerVars, exportVars>>

-----------------------------------------------------------------------------
(* Bounds of the model *)

\* longest Markdown source, in source chunks (a block, or one list item)
MaxChunks == 2
\* longest inline token sequence, in segments (a text, or one styled span)
MaxSegs == 3

-----------------------------------------------------------------------------
(* Text *)

IsWs(c) == c \in {" ", "\n"}

RECURSIVE TrimStart(_)
TrimStart(s) ==
    IF s = <<>> THEN <<>>
    ELSE IF IsWs(Head(s)) THEN TrimStart(Tail(s)) ELSE s

RECURSIVE TrimEnd(_)
TrimEnd(s) ==
    IF s = <<>> THEN <<>>
    ELSE IF IsWs(s[Len(s)]) THEN TrimEnd(SubSeq(s, 1, Len(s) - 1)) ELSE s

\* String.prototype.trim()
Trim(s) == TrimEnd(TrimStart(s))

DigitChars == <<"0", "1", "2", "3", "4", "5", "6", "7", "8", "9">>

\* `${n}` for a non-negative integer
RECURSIVE NumberToString(_)
NumberToString(n) ==
    IF n < 10 THEN <<DigitChars[n + 1]>>
    ELSE NumberToString(n \div 10) \o <<DigitChars[(n % 10) + 1]>>

\* Number(s) for a string of decimal digits; NaN is modelled as -1
RECURSIVE DigitsValue(_, _)
DigitsValue(s, acc) ==
    IF s = <<>> THEN acc
    ELSE LET d == CHOOSE k \in 0..9 : DigitChars[k + 1] = Head(s)
         IN  DigitsValue(Tail(s), 10 * acc + d)

StringToNumber(s) ==
    IF s # <<>> /\ \A k \in 1..Len(s) : \E d \in 1..10 : DigitChars[d] = s[k]
    THEN DigitsValue(s, 0)
    ELSE IF s = <<>> THEN 0 ELSE -1

-----------------------------------------------------------------------------
(* Tokens (markdown-it Token: type, tag, content, children) *)

Token(type, tag, content, kids, hasKids) ==
    [type |-> type, tag |-> tag, content |-> content,
     children |-> kids, hasChildren |-> hasKids]

Tk(type) == Token(type, <<>>, <<>>, <<>>, FALSE)
TextToken(s) == Token("text", <<>>, s, <<>>, FALSE)
CodeInlineToken(s) == Token("code_inline", <<"c", "o", "d", "e">>, s, <<>>, FALSE)
InlineToken(content, kids) == Token("inline", <<>>, content, kids, TRUE)

\* tokens[j] for a 0-based j; reading past either end gives undefined
Undefined == Tk("undefined")
At(j) == IF j >= 0 /\ j < Len(tokens) THEN tokens[j + 1] ELSE Undefined

-----------------------------------------------------------------------------
(* The Markdown source and md.parse.  A source is a sequence of chunks: a   *)
(* blank line run, a block, or one list item; adjacent items of the same    *)
(* marker type form one list.  Parse gives the token stream markdown-it     *)
(* produces for it (tight-list paragraph tokens are hidden, not absent).    *)

Alpha == <<"a", "b", "c", "d", "e", "f", "g", "h">>

Chunk(k, tag, lt, body) == [k |-> k, tag |-> tag, lt |-> lt, body |-> body]

HeadingTags == {<<"h", "1">>, <<"h", "2">>, <<"h", "3">>, <<"h", "4">>}
ItemBodies  == {"p", "e", "f", "pf", "pp", "pl"}
QuoteBodies == {"p", "pp"}

Chunks ==
    {Chunk(k, <<>>, "", "") : k \in {"blank", "p", "fence", "code_block", "hr", "html_block"}}
    \cup {Chunk("h", t, "", "") : t \in HeadingTags}
    \cup {Chunk("bq", <<>>, "", b) : b \in QuoteBodies}
    \cup {Chunk("li", <<>>, lt, b) : lt \in {"bullet", "ordered"}, b \in ItemBodies}

\* the blocks a chapter may have from its third block on
LaterChunks ==
    {Chunk("p", <<>>, "", ""), Chunk("fence", <<>>, "", ""), Chunk("bq", <<>>, "", "p"),
     Chunk("li", <<>>, "bullet", "p"), Chunk("li", <<>>, "ordered", "p"),
     Chunk("li", <<>>, "ordered", "e")}

Markdowns ==
    UNION {{m \in [1..n -> Chunks] : \A c \in 3..n : m[c] \in LaterChunks} :
              n \in 0..MaxChunks}

\* !markdown
IsEmptyString(md) == md = <<>>
\* markdown.trim() === ""
TrimsToEmpty(md) == \A c \in 1..Len(md) : md[c].k = "blank"

PlainInline(s) == InlineToken(s, <<TextToken(s)>>)

\* "x **y**": raw content keeps the markers, children carry the spans
StyledInline(L) ==
    InlineToken(<<L, " ", "*", "*", L, "*", "*">>,
                <<TextToken(<<L, " ">>), Tk("strong_open"), TextToken(<<L>>),
                  Tk("strong_close")>>)

ParagraphTokens(inl) ==
    <<Token("paragraph_open", <<"p">>, <<>>, <<>>, FALSE), inl,
      Token("paragraph_close", <<"p">>, <<>>, <<>>, FALSE)>>

FenceToken(L) == Token("fence", <<"c", "o", "d", "e">>, <<"*", L, "*", "\n">>, <<>>, FALSE)

ListOpenType(lt)  == IF lt = "bullet" THEN "bullet_list_open" ELSE "ordered_list_open"
ListCloseType(lt) == IF lt = "bullet" THEN "bullet_list_close" ELSE "ordered_list_close"

ItemBodyTokens(b, L) ==
    CASE b = "p"  -> ParagraphTokens(PlainInline(<<L>>))
      [] b = "e"  -> <<>>
      [] b = "f"  -> <<FenceToken(L)>>
      [] b = "pf" -> ParagraphTokens(PlainInline(<<L>>)) \o <<FenceToken(L)>>
      [] b = "pp" -> ParagraphTokens(PlainInline(<<L>>))
                     \o ParagraphTokens(PlainInline(<<L, L>>))
      [] b = "pl" -> ParagraphTokens(PlainInline(<<L>>))
                     \o <<Tk("bullet_list_open"), Tk("list_item_open")>>
                     \o ParagraphTokens(PlainInline(<<L, L>>))
                     \o <<Tk("list_item_close"), Tk("bullet_list_close")>>

SameList(md, c, d) ==
    /\ c >= 1 /\ d <= Len(md)
    /\ md[c].k = "li" /\ md[d].k = "li" /\ md[c].lt = md[d].lt

ChunkTokens(md, c) ==
    LET ch == md[c]
        L  == Alpha[c]
    IN  CASE ch.k = "blank" -> <<>>
          [] ch.k = "h" ->
                <<Token("heading_open", ch.tag, <<>>, <<>>, FALSE), PlainInline(<<L>>),
                  Token("heading_close", ch.tag, <<>>, <<>>, FALSE)>>
          [] ch.k = "p" -> ParagraphTokens(StyledInline(L))
          [] ch.k = "fence" -> <<FenceToken(L)>>
          [] ch.k = "code_block" ->
                <<Token("code_block", <<"c", "o", "d", "e">>, <<L, "\n">>, <<>>, FALSE)>>
          [] ch.k = "hr" -> <<Token("hr", <<"h", "r">>, <<>>, <<>>, FALSE)>>
          [] ch.k = "html_block" -> <<Token("html_block", <<>>, <<"<", L, ">">>, <<>>, FALSE)>>
          [] ch.k = "bq" ->
                <<Tk("blockquote_open")>>
                \o ParagraphTokens(PlainInline(<<L>>))
                \o (IF ch.body = "pp" THEN ParagraphTokens(PlainInline(<<L, L>>)) ELSE <<>>)
                \o <<Tk("blockquote_close")>>
          [] ch.k = "li" ->
                (IF SameList(md, c - 1, c) THEN <<>> ELSE <<Tk(ListOpenType(ch.lt))>>)
                \o <<Tk("list_item_open")>> \o ItemBodyTokens(ch.body, L)
                \o <<Tk("list_item_close")>>
                \o (IF SameList(md, c, c + 1) THEN <<>> ELSE <<Tk(ListCloseType(ch.lt))>>)

RECURSIVE ParseFrom(_, _)
ParseFrom(md, c) ==
    IF c > Len(md) THEN <<>> ELSE ChunkTokens(md, c) \o ParseFrom(md, c + 1)

\* md.parse(markdown, {})
Parse(md) == ParseFrom(md, 1)

-----------------------------------------------------------------------------
(* Constants of the flow-document styles *)

DOCX_STYLES ==
    [fonts   |-> [body |-> "Charter", heading |-> "Inter"],
     sizes   |-> [title |-> 32, subtitle |-> 20, author |-> 18, chapterTitle |-> 24,
                  h1 |-> 20, h2 |-> 18, h3 |-> 16, body |-> 12],
     spacing |-> [paragraphBefore |-> 200, paragraphAfter |-> 200,
                  chapterBefore |-> 400, chapterAfter |-> 300,
                  headingBefore |-> 300, headingAfter |-> 150]]

\* new TextRun({...}); an option left out is "" / FALSE / 0
TextRun(text, bold, italics, font, size, color) ==
    [text |-> text, bold |-> bold, italics |-> italics, font |-> font,
     size |-> size, color |-> color]

-----------------------------------------------------------------------------
(* processInlineContent *)

InlineStart == [runs |-> <<>>, bold |-> FALSE, italic |-> FALSE, textBuffer |-> <<>>]

\* flushText without the reset of the buffer after the push
flushTextKeepsBuffer(st) ==
    IF Len(Trim(st.textBuffer)) = 0 THEN st
    ELSE [st EXCEPT
            !.runs = Append(@, TextRun(st.textBuffer, st.bold, st.italic,
                                       DOCX_STYLES.fonts.body,
                                       DOCX_STYLES.sizes.body * 2, ""))]

flushText(st) ==
    IF Len(Trim(st.textBuffer)) = 0 THEN st
    ELSE [st EXCEPT
            !.runs = Append(@, TextRun(st.textBuffer, st.bold, st.italic,
                                       DOCX_STYLES.fonts.body,
                                       DOCX_STYLES.sizes.body * 2, "")),
            !.textBuffer = <<>>]

\* one iteration of the for-of loop: the switch on child.type
InlineCase(st, child) ==
    CASE child.type = "strong_open"  -> [flushText(st) EXCEPT !.bold = TRUE]
      [] child.type = "strong_close" -> [flushText(st) EXCEPT !.bold = FALSE]
      [] child.type = "em_open"      -> [flushText(st) EXCEPT !.italic = TRUE]
      [] child.type = "em_close"     -> [flushText(st) EXCEPT !.italic = FALSE]
      [] child.type = "text"         -> [st EXCEPT !.textBuffer = @ \o child.content]
      [] OTHER                       -> st

RECURSIVE InlineLoop(_, _)
InlineLoop(st, kids) ==
    IF kids = <<>> THEN st ELSE InlineLoop(InlineCase(st, Head(kids)), Tail(kids))

processInlineContent(kids) == flushText(InlineLoop(InlineStart, kids)).runs

-----------------------------------------------------------------------------
(* Paragraph blocks of the flow document *)

\* new Paragraph({}) with every option left out
NoParagraphOptions ==
    [text |-> <<>>, children |-> <<>>, heading |-> "", before |-> 0, after |-> 0,
     alignment |-> "", indentLeft |-> 0, borderLeft |-> "", borderBottom |-> "",
     shading |-> "", pageBreakBefore |-> FALSE, image |-> FALSE]

HeadingLevelOf(level) ==
    CASE level = 1 -> "Heading1"
      [] level = 2 -> "Heading2"
      [] level = 3 -> "Heading3"
      [] OTHER     -> "Heading1"

HeadingParagraph(token, inlineToken) ==
    LET level == StringToNumber(Tail(token.tag))
    IN  [NoParagraphOptions EXCEPT
            !.text = inlineToken.content,
            !.heading = HeadingLevelOf(level),
            !.before = DOCX_STYLES.spacing.headingBefore,
            !.after = DOCX_STYLES.spacing.headingAfter]

BodyParagraph(inlineToken, inL) ==
    [NoParagraphOptions EXCEPT
        !.children = processInlineContent(inlineToken.children),
        !.before = IF inL THEN 100 ELSE DOCX_STYLES.spacing.paragraphBefore,
        !.after = IF inL THEN 100 ELSE DOCX_STYLES.spacing.paragraphAfter,
        !.alignment = "JUSTIFIED"]

\* the spacing block pushed when a list closes
ListSpacer == [NoParagraphOptions EXCEPT !.after = 100]

\* the two characters U+2022 and space
BulletMark == <<"U+2022", " ">>

\* the literal put before a list item: the bullet mark, `${orderedCounter++}. ` or ""
BulletFor(lt, counter) ==
    IF lt = "bullet" THEN BulletMark
    ELSE IF lt = "ordered" THEN NumberToString(counter) \o <<".", " ">>
    ELSE <<>>

ListItemParagraph(inlineToken, lt, counter) ==
    [NoParagraphOptions EXCEPT
        !.children = <<TextRun(BulletFor(lt, counter), FALSE, FALSE,
                               DOCX_STYLES.fonts.body, 0, "")>>
                     \o processInlineContent(inlineToken.children),
        !.before = 50, !.after = 50, !.indentLeft = 720]

BlockquoteParagraph(inlineToken) ==
    [NoParagraphOptions EXCEPT
        !.children = <<TextRun(inlineToken.content, FALSE, TRUE,
                               DOCX_STYLES.fonts.body, 0, "666666")>>,
        !.before = 200, !.after = 200, !.indentLeft = 720,
        !.alignment = "JUSTIFIED", !.borderLeft = "4f46e5"]

CodeParagraph(token) ==
    [NoParagraphOptions EXCEPT
        !.children = <<TextRun(token.content, FALSE, FALSE, "Courier New", 20, "333333")>>,
        !.before = 200, !.after = 200, !.shading = "f5f5f5"]

RuleParagraph ==
    [NoParagraphOptions EXCEPT !.borderBottom = "cccccc", !.before = 200, !.after = 200]

-----------------------------------------------------------------------------
(* processMarkdownToDocx: one action per branch of the loop body.  Each     *)
(* action is one iteration: the branch, its skip and the loop's i++.        *)

Push(block) ==
    /\ paragraphs' = Append(paragraphs, block)
    /\ origin' = Append(origin, i)

NoPush == UNCHANGED <<paragraphs, origin>>

InLoop == rpc = "loop" /\ i < Len(tokens)

\* the entry with a block list that outlives the call
DocxEnterKeepsBlocks ==
    /\ rpc = "called"
    /\ tokens' = Parse(markdown)
    /\ inList' = FALSE
    /\ listType' = "null"
    /\ orderedCounter' = 1
    /\ i' = 0
    /\ rpc' = "loop"
    /\ UNCHANGED <<paragraphs, origin>>
    /\ UNCHANGED <<markdown, inlineVars, exportVars, pdfVars, callerVars>>

\* entry: parse, then the locals' initial values
DocxEnter ==
    /\ rpc = "called"
    /\ tokens' = Parse(markdown)
    /\ paragraphs' = <<>>
    /\ origin' = <<>>
    /\ inList' = FALSE
    /\ listType' = "null"
    /\ orderedCounter' = 1
    /\ i' = 0
    /\ rpc' = "loop"
    /\ UNCHANGED <<markdown, inlineVars, exportVars, pdfVars, callerVars>>

IsHeading == At(i).type = "heading_open" /\ At(i + 1).type = "inline"

IsParagraph ==
    /\ At(i).type = "paragraph_open"
    /\ At(i + 1).type = "inline" /\ At(i + 1).hasChildren

IsListItem ==
    /\ At(i).type = "list_item_open"
    /\ At(i + 2).type = "inline" /\ At(i + 2).hasChildren

IsBlockquote == At(i).type = "blockquote_open" /\ At(i + 2).type = "inline"

IsCode == At(i).type \in {"code_block", "fence"}

DocxHeading ==
    /\ InLoop /\ IsHeading
    /\ Push(HeadingParagraph(At(i), At(i + 1)))
    /\ i' = i + 2 + 1
    /\ UNCHANGED <<inList, listType, orderedCounter>>
    /\ UNCHANGED <<markdown, tokens, rpc, inlineVars, exportVars, pdfVars, callerVars>>

DocxParagraph ==
    /\ InLoop /\ IsParagraph
    /\ Push(BodyParagraph(At(i + 1), inList))
    /\ i' = i + 2 + 1
    /\ UNCHANGED <<inList, listType, orderedCounter>>
    /\ UNCHANGED <<markdown, tokens, rpc, inlineVars, exportVars, pdfVars, callerVars>>

DocxBulletListOpen ==
    /\ InLoop /\ At(i).type = "bullet_list_open"
    /\ inList' = TRUE
    /\ listType' = "bullet"
    /\ NoPush
    /\ i' = i + 1
    /\ UNCHANGED orderedCounter
    /\ UNCHANGED <<markdown, tokens, rpc, inlineVars, exportVars, pdfVars, callerVars>>

\* the close of a bullet list that forgets to clear listType
DocxBulletListCloseKeepsType ==
    /\ InLoop /\ At(i).type = "bullet_list_close"
    /\ inList' = FALSE
    /\ Push(ListSpacer)
    /\ i' = i + 1
    /\ UNCHANGED <<orderedCounter, listType>>
    /\ UNCHANGED <<markdown, tokens, rpc, inlineVars, exportVars, pdfVars, callerVars>>

DocxBulletListClose ==
    /\ InLoop /\ At(i).type = "bullet_list_close"
    /\ inList' = FALSE
    /\ listType' = "null"
    /\ Push(ListSpacer)
    /\ i' = i + 1
    /\ UNCHANGED orderedCounter
    /\ UNCHANGED <<markdown, tokens, rpc, inlineVars, exportVars, pdfVars, callerVars>>

DocxOrderedListOpen ==
    /\ InLoop /\ At(i).type = "ordered_list_open"
    /\ inList' = TRUE
    /\ listType' = "ordered"
    /\ orderedCounter' = 1
    /\ NoPush
    /\ i' = i + 1
    /\ UNCHANGED <<markdown, tokens, rpc, inlineVars, exportVars, pdfVars, callerVars>>

\* the close of an ordered list without its spacing block
DocxOrderedListCloseNoSpacer ==
    /\ InLoop /\ At(i).type = "ordered_list_close"
    /\ inList' = FALSE
    /\ listType' = "null"
    /\ NoPush
    /\ i' = i + 1
    /\ UNCHANGED orderedCounter
    /\ UNCHANGED <<markdown, tokens, rpc, inlineVars, exportVars, pdfVars, callerVars>>

DocxOrderedListClose ==
    /\ InLoop /\ At(i).type = "ordered_list_close"
    /\ inList' = FALSE
    /\ listType' = "null"
    /\ Push(ListSpacer)
    /\ i' = i + 1
    /\ UNCHANGED orderedCounter
    /\ UNCHANGED <<markdown, tokens, rpc, inlineVars, exportVars, pdfVars, callerVars>>

DocxListItem ==
    /\ InLoop /\ IsListItem
    /\ Push(ListItemParagraph(At(i + 2), listType, orderedCounter))
    /\ orderedCounter' = IF listType = "ordered" THEN orderedCounter + 1 ELSE orderedCounter
    /\ i' = i + 4 + 1
    /\ UNCHANGED <<inList, listType>>
    /\ UNCHANGED <<markdown, tokens, rpc, inlineVars, exportVars, pdfVars, callerVars>>

DocxBlockquote ==
    /\ InLoop /\ IsBlockquote
    /\ Push(BlockquoteParagraph(At(i + 2)))
    /\ i' = i + 4 + 1
    /\ UNCHANGED <<inList, listType, orderedCounter>>
    /\ UNCHANGED <<markdown, tokens, rpc, inlineVars, exportVars, pdfVars, callerVars>>

DocxCode ==
    /\ InLoop /\ IsCode
    /\ Push(CodeParagraph(At(i)))
    /\ i' = i + 1
    /\ UNCHANGED <<inList, listType, orderedCounter>>
    /\ UNCHANGED <<markdown, tokens, rpc, inlineVars, exportVars, pdfVars, callerVars>>

DocxHr ==
    /\ InLoop /\ At(i).type = "hr"
    /\ Push(RuleParagraph)
    /\ i' = i + 1
    /\ UNCHANGED <<inList, listType, orderedCounter>>
    /\ UNCHANGED <<markdown, tokens, rpc, inlineVars, exportVars, pdfVars, callerVars>>

\* no branch takes the token: it falls through every if and the loop goes on
DocxFallThrough ==
    /\ InLoop
    /\ ~IsHeading /\ ~IsParagraph /\ ~IsListItem /\ ~IsBlockquote /\ ~IsCode
    /\ At(i).type \notin {"bullet_list_open", "bullet_list_close", "ordered_list_open",
                          "ordered_list_close", "hr"}
    /\ NoPush
    /\ i' = i + 1
    /\ UNCHANGED <<inList, listType, orderedCounter>>
    /\ UNCHANGED <<markdown, tokens, rpc, inlineVars, exportVars, pdfVars, callerVars>>

\* the loop condition fails: return paragraphs
DocxReturn ==
    /\ rpc = "loop" /\ i >= Len(tokens)
    /\ rpc' = "returned"
    /\ UNCHANGED <<markdown, tokens, i, paragraphs, origin, inList, listType,
                   orderedCounter, inlineVars, exportVars, pdfVars, callerVars>>

DocxBuildsBlock ==
    \/ IsHeading \/ IsParagraph \/ IsListItem \/ IsBlockquote \/ IsCode
    \/ At(i).type \in {"bullet_list_close", "ordered_list_close", "hr"}

\* the catch clause: building the block throws, the error is logged and an
\* APIError(500, ContentProcessingError) leaves the function; nothing is returned
DocxThrow ==
    /\ InLoop /\ DocxBuildsBlock
    /\ rpc' = "threw"
    /\ thrown' = [status |-> 500, type |-> "ContentProcessingError", field |-> "markdown"]
    /\ UNCHANGED <<markdown, tokens, i, paragraphs, origin, inList, listType,
                   orderedCounter, inlineVars, pdfVars, callerVars>>
    /\ UNCHANGED <<format, request, book, sections, index, xpc, res, marks, rendered>>

DocxRender ==
    \/ DocxEnter \/ DocxHeading \/ DocxParagraph
    \/ DocxBulletListOpen \/ DocxBulletListClose
    \/ DocxOrderedListOpen \/ DocxOrderedListClose
    \/ DocxListItem \/ DocxBlockquote \/ DocxCode \/ DocxHr
    \/ DocxFallThrough \/ DocxReturn \/ DocxThrow

-----------------------------------------------------------------------------
(* The drawing surface: a PDFDocument is its current font, size and fill    *)
(* colour and the operations drawn so far.  Vertical advances are logged in *)
(* units of 1/TYPOGRAPHY.sizes.body of a line, the denominator the code     *)
(* divides by.                                                              *)

TYPOGRAPHY ==
    [fonts   |-> [serif |-> "Times-Roman", serifBold |-> "Times-Bold",
                  serifItalic |-> "Times-Italic", sans |-> "Helvetica",
                  sansBold |-> "Helvetica-Bold", sansOblique |-> "Helvetica-Oblique"],
     sizes   |-> [title |-> 28, author |-> 16, chapterTitle |-> 20, h1 |-> 18,
                  h2 |-> 16, h3 |-> 14, body |-> 12, captions |-> 9],
     spacing |-> [paragraphSpacing |-> 12, chapterSpacing |-> 24,
                  headingSpacing |-> [before |-> 16, after |-> 8], listSpacing |-> 6],
     colors  |-> [text |-> "333333", heading |-> "1a1a1a", accent |-> "4f46e5"]]

\* new PDFDocument(...): pdfkit starts in Helvetica 12, black
NewPDFDocument ==
    [font |-> "Helvetica", fontSize |-> 12, fillColor |-> "black", page |-> <<>>]

SetFont(d, f)      == [d EXCEPT !.font = f]
SetFontSize(d, n)  == [d EXCEPT !.fontSize = n]
SetFillColor(d, c) == [d EXCEPT !.fillColor = c]

\* text options: an option left out is "" / 0 / "unset"
TextOptions(align, indent, lineGap, continued) ==
    [align |-> align, indent |-> indent, lineGap |-> lineGap, continued |-> continued]

\* doc.text(s, options): drawn in the font, size and colour in force
DrawText(d, s, options) ==
    [d EXCEPT !.page = Append(@,
        [op |-> "text", text |-> s, font |-> d.font, fontSize |-> d.fontSize,
         fillColor |-> d.fillColor, options |-> options, amount |-> 0])]

DrawOp(d, name, amount) ==
    [d EXCEPT !.page = Append(@,
        [op |-> name, text |-> <<>>, font |-> d.font, fontSize |-> d.fontSize,
         fillColor |-> d.fillColor, options |-> TextOptions("", 0, 0, "unset"),
         amount |-> amount])]

\* doc.moveDown(n / TYPOGRAPHY.sizes.body); a whole line is TYPOGRAPHY.sizes.body
MoveDown(d, n) == DrawOp(d, "moveDown", n)

-----------------------------------------------------------------------------
(* renderInlineTokens *)

\* options.x || dflt for a number
OrNumber(x, dflt) == IF x = 0 THEN dflt ELSE x
\* options.x || dflt for a string
OrString(x, dflt) == IF x = "" THEN dflt ELSE x

PdfInlineStart(d) == [d |-> d, currentFont |-> TYPOGRAPHY.fonts.serif, textBuffer |-> <<>>]

flushBuffer(st, base) ==
    IF st.textBuffer # <<>>
    THEN [st EXCEPT !.d = DrawText(SetFont(st.d, st.currentFont), st.textBuffer, base),
                    !.textBuffer = <<>>]
    ELSE st

PdfInlineCase(st, token, base) ==
    CASE token.type = "text" -> [st EXCEPT !.textBuffer = @ \o token.content]
      [] token.type = "strong_open" ->
            [flushBuffer(st, base) EXCEPT !.currentFont = TYPOGRAPHY.fonts.serifBold]
      [] token.type = "strong_close" ->
            [flushBuffer(st, base) EXCEPT !.currentFont = TYPOGRAPHY.fonts.serif]
      [] token.type = "em_open" ->
            [flushBuffer(st, base) EXCEPT !.currentFont = TYPOGRAPHY.fonts.serifItalic]
      [] token.type = "em_close" ->
            [flushBuffer(st, base) EXCEPT !.currentFont = TYPOGRAPHY.fonts.serif]
      [] token.type = "code_inline" ->
            LET f == flushBuffer(st, base)
            IN  [f EXCEPT !.d = SetFont(DrawText(SetFont(f.d, "Courier"), token.content,
                                                 [base EXCEPT !.continued = "true"]),
                                        f.currentFont)]
      [] OTHER -> st

RECURSIVE PdfInlineLoop(_, _, _)
PdfInlineLoop(st, kids, base) ==
    IF kids = <<>> THEN st
    ELSE PdfInlineLoop(PdfInlineCase(st, Head(kids), base), Tail(kids), base)

renderInlineTokens(d, kids, options) ==
    IF Len(kids) = 0 THEN d
    ELSE LET base == TextOptions(OrString(options.align, "justify"),
                                 OrNumber(options.indent, 0),
                                 OrNumber(options.lineGap, 2), "unset")
             st == PdfInlineLoop(PdfInlineStart(d), kids, base)
         IN  IF st.textBuffer # <<>>
             THEN DrawText(SetFont(st.d, st.currentFont), st.textBuffer,
                           [base EXCEPT !.continued = "false"])
             ELSE DrawText(st.d, <<>>, TextOptions("", 0, 0, "false"))

-----------------------------------------------------------------------------
(* renderMarkdown: one action per branch of the loop body *)

PAt(j) == IF j >= 0 /\ j < Len(pdfTokens) THEN pdfTokens[j + 1] ELSE Undefined

\* tokens[j].children || []
ChildrenOrEmpty(token) == IF token.hasChildren THEN token.children ELSE <<>>

\* parseInt(tag.replace("h", ""), 10)
HeadingLevelFromTag(tag) ==
    StringToNumber(SelectSeq(tag, LAMBDA c : c # "h"))

PdfHeadingSize(level) ==
    IF level = 1 THEN TYPOGRAPHY.sizes.h1
    ELSE IF level = 2 THEN TYPOGRAPHY.sizes.h2
    ELSE TYPOGRAPHY.sizes.h3

BodyStyle(d) ==
    SetFillColor(SetFontSize(SetFont(d, TYPOGRAPHY.fonts.serif), TYPOGRAPHY.sizes.body),
                 TYPOGRAPHY.colors.text)

PdfHeadingDoc(d) ==
    LET d1 == MoveDown(d, TYPOGRAPHY.spacing.headingSpacing.before)
        d2 == SetFillColor(
                  SetFontSize(SetFont(d1, TYPOGRAPHY.fonts.sansBold),
                              PdfHeadingSize(HeadingLevelFromTag(PAt(pdfI).tag))),
                  TYPOGRAPHY.colors.heading)
        d3 == IF PAt(pdfI + 1).type = "inline"
              THEN renderInlineTokens(d2, ChildrenOrEmpty(PAt(pdfI + 1)),
                                      TextOptions("left", 0, 0, "unset"))
              ELSE d2
    IN  MoveDown(d3, TYPOGRAPHY.spacing.headingSpacing.after)

\* the cursor after an open token whose inline and close are consumed when present
PdfSkip(closeType) ==
    LET i1 == IF PAt(pdfI + 1).type = "inline" THEN pdfI + 1 ELSE pdfI
        i2 == IF PAt(i1 + 1).type = closeType THEN i1 + 1 ELSE i1
    IN  i2 + 1

PdfParagraphDoc(d) ==
    LET d1 == BodyStyle(d)
        d2 == IF PAt(pdfI + 1).type = "inline"
              THEN renderInlineTokens(d1, ChildrenOrEmpty(PAt(pdfI + 1)),
                        TextOptions("justify", 0,
                                    TYPOGRAPHY.spacing.paragraphSpacing
                                        \div TYPOGRAPHY.sizes.body, "unset"))
              ELSE d1
    IN  IF ~pdfInList THEN MoveDown(d2, TYPOGRAPHY.spacing.paragraphSpacing) ELSE d2

PdfBulletFor(lt, counter) ==
    IF lt = "bullet" THEN BulletMark
    ELSE IF lt = "ordered" THEN NumberToString(counter) \o <<".", " ">>
    ELSE <<>>

\* the lookahead of a list item: the first inline token with children after j,
\* or -1 when a list_item_close or the end of the stream comes first
RECURSIVE FindItemInline(_)
FindItemInline(j) ==
    IF j >= Len(pdfTokens) THEN -1
    ELSE IF PAt(j).type = "inline" /\ PAt(j).hasChildren THEN j
    ELSE IF PAt(j).type = "list_item_close" THEN -1
    ELSE FindItemInline(j + 1)

PdfListItemDoc(d) ==
    LET d1 == DrawText(BodyStyle(d), PdfBulletFor(pdfListType, orderedListCounter),
                       TextOptions("", 20, 0, "true"))
        j  == FindItemInline(pdfI + 1)
        d2 == IF j >= 0
              THEN renderInlineTokens(d1, ChildrenOrEmpty(PAt(j)),
                                      TextOptions("left", 0, 2, "unset"))
              ELSE d1
    IN  MoveDown(d2, TYPOGRAPHY.spacing.listSpacing)

PdfCodeDoc(d) ==
    LET d1 == MoveDown(d, TYPOGRAPHY.spacing.paragraphSpacing)
        d2 == DrawText(SetFillColor(SetFontSize(SetFont(d1, "Courier"), 9),
                                    TYPOGRAPHY.colors.text),
                       PAt(pdfI).content, TextOptions("left", 20, 0, "unset"))
        d3 == SetFontSize(SetFont(d2, TYPOGRAPHY.fonts.serif), TYPOGRAPHY.sizes.body)
    IN  MoveDown(d3, TYPOGRAPHY.spacing.paragraphSpacing)

PdfHrDoc(d) ==
    MoveDown(DrawOp(MoveDown(d, TYPOGRAPHY.sizes.body), "stroke", 0), TYPOGRAPHY.sizes.body)

InPdfLoop == pdfPc = "loop" /\ pdfI < Len(pdfTokens)

\* the entry with a guard that throws on empty content
PdfEnterThrowsOnEmpty ==
    /\ pdfPc = "called"
    /\ IF IsEmptyString(markdown) \/ TrimsToEmpty(markdown)
       THEN /\ pdfPc' = "threw"
            /\ UNCHANGED <<pdfTokens, pdfI, pdfInList, pdfListType, orderedListCounter>>
       ELSE /\ pdfTokens' = Parse(markdown)
            /\ pdfInList' = FALSE
            /\ pdfListType' = "null"
            /\ orderedListCounter' = 1
            /\ pdfI' = 0
            /\ pdfPc' = "loop"
    /\ UNCHANGED <<doc, markdown, inlineVars, exportVars, callerVars>>
    /\ UNCHANGED <<tokens, i, paragraphs, origin, inList, listType, orderedCounter, rpc>>

\* entry: the early return for no content, else parse and the locals' initial values
PdfEnter ==
    /\ pdfPc = "called"
    /\ IF IsEmptyString(markdown) \/ TrimsToEmpty(markdown)
       THEN /\ pdfPc' = "returned"
            /\ UNCHANGED <<pdfTokens, pdfI, pdfInList, pdfListType, orderedListCounter>>
       ELSE /\ pdfTokens' = Parse(markdown)
            /\ pdfInList' = FALSE
            /\ pdfListType' = "null"
            /\ orderedListCounter' = 1
            /\ pdfI' = 0
            /\ pdfPc' = "loop"
    /\ UNCHANGED <<doc, markdown, inlineVars, exportVars, callerVars>>
    /\ UNCHANGED <<tokens, i, paragraphs, origin, inList, listType, orderedCounter, rpc>>

PdfFrame ==
    /\ UNCHANGED <<pdfTokens, pdfPc, markdown, inlineVars, exportVars, callerVars>>
    /\ UNCHANGED <<tokens, i, paragraphs, origin, inList, listType, orderedCounter, rpc>>

PdfHeading ==
    /\ InPdfLoop /\ PAt(pdfI).type = "heading_open"
    /\ doc' = PdfHeadingDoc(doc)
    /\ pdfI' = PdfSkip("heading_close")
    /\ UNCHANGED <<pdfInList, pdfListType, orderedListCounter>>
    /\ PdfFrame

PdfParagraph ==
    /\ InPdfLoop /\ PAt(pdfI).type = "paragraph_open"
    /\ doc' = PdfParagraphDoc(doc)
    /\ pdfI' = PdfSkip("paragraph_close")
    /\ UNCHANGED <<pdfInList, pdfListType, orderedListCounter>>
    /\ PdfFrame

PdfBulletListOpen ==
    /\ InPdfLoop /\ PAt(pdfI).type = "bullet_list_open"
    /\ pdfInList' = TRUE
    /\ pdfListType' = "bullet"
    /\ doc' = MoveDown(doc, TYPOGRAPHY.spacing.listSpacing)
    /\ pdfI' = pdfI + 1
    /\ UNCHANGED orderedListCounter
    /\ PdfFrame

PdfBulletListClose ==
    /\ InPdfLoop /\ PAt(pdfI).type = "bullet_list_close"
    /\ pdfInList' = FALSE
    /\ pdfListType' = "null"
    /\ doc' = MoveDown(doc, TYPOGRAPHY.spacing.paragraphSpacing)
    /\ pdfI' = pdfI + 1
    /\ UNCHANGED orderedListCounter
    /\ PdfFrame

PdfOrderedListOpen ==
    /\ InPdfLoop /\ PAt(pdfI).type = "ordered_list_open"
    /\ pdfInList' = TRUE
    /\ pdfListType' = "ordered"
    /\ orderedListCounter' = 1
    /\ doc' = MoveDown(doc, TYPOGRAPHY.spacing.listSpacing)
    /\ pdfI' = pdfI + 1
    /\ PdfFrame

PdfOrderedListClose ==
    /\ InPdfLoop /\ PAt(pdfI).type = "ordered_list_close"
    /\ pdfInList' = FALSE
    /\ pdfListType' = "null"
    /\ doc' = MoveDown(doc, TYPOGRAPHY.spacing.paragraphSpacing)
    /\ pdfI' = pdfI + 1
    /\ UNCHANGED orderedListCounter
    /\ PdfFrame

PdfListItem ==
    /\ InPdfLoop /\ PAt(pdfI).type = "list_item_open"
    /\ doc' = PdfListItemDoc(doc)
    /\ orderedListCounter' =
          IF pdfListType = "ordered" THEN orderedListCounter + 1 ELSE orderedListCounter
    /\ pdfI' = pdfI + 1
    /\ UNCHANGED <<pdfInList, pdfListType>>
    /\ PdfFrame

PdfCode ==
    /\ InPdfLoop /\ PAt(pdfI).type \in {"code_block", "fence"}
    /\ doc' = PdfCodeDoc(doc)
    /\ pdfI' = pdfI + 1
    /\ UNCHANGED <<pdfInList, pdfListType, orderedListCounter>>
    /\ PdfFrame

PdfHr ==
    /\ InPdfLoop /\ PAt(pdfI).type = "hr"
    /\ doc' = PdfHrDoc(doc)
    /\ pdfI' = pdfI + 1
    /\ UNCHANGED <<pdfInList, pdfListType, orderedListCounter>>
    /\ PdfFrame

PdfDrawingTypes ==
    {"heading_open", "paragraph_open", "bullet_list_open", "bullet_list_close",
     "ordered_list_open", "ordered_list_close", "list_item_open", "code_block",
     "fence", "hr"}

\* the first blockquote_close at or after j, or the end of the stream
RECURSIVE QuoteCloseFrom(_)
QuoteCloseFrom(j) ==
    IF j >= Len(pdfTokens) \/ PAt(j).type = "blockquote_close" THEN j
    ELSE QuoteCloseFrom(j + 1)

\* the cursor after a blockquote_open when the whole blockquote is left out
PdfAfterQuoteSkipped(j) ==
    IF PAt(j).type = "blockquote_open" THEN QuoteCloseFrom(j) + 1 ELSE j + 1

\* the cursor after a token no branch takes: the loop's i++
PdfAfterUnhandled(j) == j + 1

\* no branch takes the token (blockquote tokens among them)
PdfFallThrough ==
    /\ InPdfLoop /\ PAt(pdfI).type \notin PdfDrawingTypes
    /\ pdfI' = PdfAfterUnhandled(pdfI)
    /\ UNCHANGED <<doc, pdfInList, pdfListType, orderedListCounter>>
    /\ PdfFrame

PdfReturn ==
    /\ pdfPc = "loop" /\ pdfI >= Len(pdfTokens)
    /\ pdfPc' = "returned"
    /\ UNCHANGED <<pdfTokens, pdfI, pdfInList, pdfListType, orderedListCounter, doc>>
    /\ UNCHANGED <<markdown, inlineVars, exportVars, callerVars>>
    /\ UNCHANGED <<tokens, i, paragraphs, origin, inList, listType, orderedCounter, rpc>>

\* what the branch taken for the token at the cursor draws
PdfBranchDoc(d) ==
    LET type == PAt(pdfI).type
    IN  CASE type = "heading_open" -> PdfHeadingDoc(d)
          [] type = "paragraph_open" -> PdfParagraphDoc(d)
          [] type \in {"bullet_list_open", "ordered_list_open"} ->
                MoveDown(d, TYPOGRAPHY.spacing.listSpacing)
          [] type \in {"bullet_list_close", "ordered_list_close"} ->
                MoveDown(d, TYPOGRAPHY.spacing.paragraphSpacing)
          [] type = "list_item_open" -> PdfListItemDoc(d)
          [] type \in {"code_block", "fence"} -> PdfCodeDoc(d)
          [] type = "hr" -> PdfHrDoc(d)
          [] OTHER -> d

\* the catch clause: a call on the document throws part-way through a branch;
\* what was drawn before it stays on the page, and an
\* APIError(500, PDFRenderingError) leaves the function
PdfThrow ==
    /\ InPdfLoop /\ PAt(pdfI).type \in PdfDrawingTypes
    /\ \E n \in Len(doc.page)..(Len(PdfBranchDoc(doc).page) - 1) :
          doc' = [doc EXCEPT !.page = SubSeq(PdfBranchDoc(doc).page, 1, n)]
    /\ pdfPc' = "threw"
    /\ thrown' = [status |-> 500, type |-> "PDFRenderingError", field |-> "markdown"]
    /\ UNCHANGED <<pdfTokens, pdfI, pdfInList, pdfListType, orderedListCounter>>
    /\ UNCHANGED <<markdown, inlineVars, callerVars>>
    /\ UNCHANGED <<format, request, book, sections, index, xpc, res, marks, rendered>>
    /\ UNCHANGED <<tokens, i, paragraphs, origin, inList, listType, orderedCounter, rpc>>

PdfRender ==
    \/ PdfEnter \/ PdfHeading \/ PdfParagraph
    \/ PdfBulletListOpen \/ PdfBulletListClose
    \/ PdfOrderedListOpen \/ PdfOrderedListClose
    \/ PdfListItem \/ PdfCode \/ PdfHr \/ PdfFallThrough \/ PdfReturn \/ PdfThrow

-----------------------------------------------------------------------------
(* A caller that renders one chapter's Markdown callsLeft times in a row    *)

\* how often the caller renders the same chapter
Renders == 2

CallRender ==
    /\ rpc = "idle" /\ callsLeft > 0
    /\ callsLeft' = callsLeft - 1
    /\ rpc' = "called"
    /\ UNCHANGED <<markdown, tokens, i, paragraphs, origin, inList, listType,
                   orderedCounter, results, eventLoop, inlineVars, exportVars, pdfVars>>
    /\ UNCHANGED <<controllerVars, authVars>>

TakeResult ==
    /\ rpc = "returned"
    /\ results' = Append(results, paragraphs)
    /\ rpc' = "idle"
    /\ UNCHANGED <<markdown, tokens, i, paragraphs, origin, inList, listType,
                   orderedCounter, callsLeft, eventLoop, inlineVars, exportVars, pdfVars>>
    /\ UNCHANGED <<controllerVars, authVars>>

\* after the flow-document renders, the same Markdown is drawn on a fresh page
CallDraw ==
    /\ rpc = "idle" /\ callsLeft = 0 /\ pdfPc = "idle"
    /\ pdfPc' = "called"
    /\ UNCHANGED <<pdfTokens, pdfI, pdfInList, pdfListType, orderedListCounter, doc>>
    /\ UNCHANGED <<docxVars, inlineVars, exportVars, callerVars>>

InlineIdle == children = <<>> /\ textRuns = <<>> /\ ipc = "idle"

\* one request at a time
SingleRequest == [phase |-> "off"]

PdfIdle ==
    /\ pdfTokens = <<>> /\ pdfI = 0 /\ pdfInList = FALSE /\ pdfListType = "null"
    /\ orderedListCounter = 1 /\ pdfPc = "idle" /\ doc = NewPDFDocument

NoError == [status |-> 0, type |-> "", field |-> ""]

NewResponse == [headers |-> <<>>, piped |-> FALSE, body |-> <<>>, ended |-> FALSE]

NoBook ==
    [found |-> FALSE, userId |-> "", title |-> <<>>, subtitle |-> <<>>, author |-> <<>>,
     coverImageUrl |-> "", chapters |-> <<>>]

ExportIdle ==
    /\ format = "none" /\ request = [bookId |-> "", userId |-> ""] /\ book = NoBook
    /\ sections = <<>> /\ index = 0 /\ xpc = "idle" /\ thrown = NoError
    /\ res = NewResponse /\ marks = <<>> /\ rendered = <<>>

\* no request is routed to a controller
ControllerIdle ==
    /\ req = [route |-> "none", params |-> [bookId |-> ""], userId |-> ""]
    /\ cpc = "idle" /\ nextArg = NoError /\ attempts = <<>>

\* no refresh call is in flight
AuthIdle == refreshTokens = {} /\ refreshCalls = <<>>

Init ==
    /\ ControllerIdle /\ AuthIdle
    /\ InlineIdle
    /\ PdfIdle
    /\ ExportIdle
    /\ markdown \in Markdowns
    /\ tokens = <<>> /\ i = 0 /\ paragraphs = <<>> /\ origin = <<>>
    /\ inList = FALSE /\ listType = "null" /\ orderedCounter = 1
    /\ rpc = "idle"
    /\ callsLeft = Renders
    /\ results = <<>>
    /\ eventLoop = SingleRequest

Next == CallRender \/ DocxRender \/ TakeResult \/ CallDraw \/ PdfRender

Spec == Init /\ [][Next]_vars

-----------------------------------------------------------------------------
(* The Inline Run Builder on its own: inline token sequences as markdown-it  *)
(* emits them, built from segments (a text, a styled span, nested spans).    *)

SegKinds == {"t", "w", "b", "i", "bi", "bb", "bib", "c", "br"}

SegTokens(k, L) ==
    CASE k = "t"   -> <<TextToken(<<L>>)>>
      [] k = "w"   -> <<TextToken(<<" ">>)>>
      [] k = "b"   -> <<Tk("strong_open"), TextToken(<<L>>), Tk("strong_close")>>
      [] k = "i"   -> <<Tk("em_open"), TextToken(<<L>>), Tk("em_close")>>
      [] k = "bi"  -> <<Tk("strong_open"), Tk("em_open"), TextToken(<<L>>),
                        Tk("em_close"), Tk("strong_close")>>
      [] k = "bb"  -> <<Tk("strong_open"), TextToken(<<L, "1", " ">>),
                        Tk("strong_open"), TextToken(<<L, "2">>), Tk("strong_close"),
                        TextToken(<<" ", L, "3">>), Tk("strong_close")>>
      [] k = "bib" -> <<Tk("strong_open"), TextToken(<<L, "1", " ">>),
                        Tk("em_open"), TextToken(<<L, "2">>), Tk("em_close"),
                        TextToken(<<" ", L, "3">>), Tk("strong_close")>>
      [] k = "c"   -> <<CodeInlineToken(<<L>>)>>
      [] k = "br"  -> <<Tk("softbreak")>>

RECURSIVE SegsFrom(_, _)
SegsFrom(segs, n) ==
    IF n > Len(segs) THEN <<>> ELSE SegTokens(segs[n], Alpha[n]) \o SegsFrom(segs, n + 1)

\* "Some **bold** and _italic_ text.": text, strong, text, em, text
ScenarioSegs == <<"t", "b", "t", "i", "t">>

InlineInputs ==
    {SegsFrom(segs, 1) : segs \in UNION {[1..n -> SegKinds] : n \in 0..MaxSegs}}
    \cup {SegsFrom(ScenarioSegs, 1)}

ProcessInline ==
    /\ ipc = "start"
    /\ textRuns' = processInlineContent(children)
    /\ ipc' = "done"
    /\ UNCHANGED <<children, docxVars, pdfVars, callerVars, exportVars>>

DocxIdle ==
    /\ markdown = <<>> /\ tokens = <<>> /\ i = 0 /\ paragraphs = <<>> /\ origin = <<>>
    /\ inList = FALSE /\ listType = "null" /\ orderedCounter = 1 /\ rpc = "idle"

InitInline ==
    /\ ControllerIdle /\ AuthIdle
    /\ children \in InlineInputs
    /\ textRuns = <<>>
    /\ ipc = "start"
    /\ DocxIdle
    /\ PdfIdle
    /\ ExportIdle
    /\ callsLeft = 0 /\ results = <<>> /\ eventLoop = SingleRequest

\* the same children drawn by renderInlineTokens the way the paragraph branch
\* of renderMarkdown calls it
DrawInline ==
    /\ ipc = "done"
    /\ doc' = renderInlineTokens(BodyStyle(doc), children,
                  TextOptions("justify", 0,
                              TYPOGRAPHY.spacing.paragraphSpacing
                                  \div TYPOGRAPHY.sizes.body, "unset"))
    /\ ipc' = "drawn"
    /\ UNCHANGED <<children, textRuns, docxVars, pdfTokens, pdfI, pdfInList,
                   pdfListType, orderedListCounter, pdfPc, callerVars, exportVars>>

NextInline == ProcessInline \/ DrawInline

SpecInline == InitInline /\ [][NextInline]_vars

-----------------------------------------------------------------------------
(* The Document Assembler: exportAsDocxService and exportAsPDFService.      *)
(* The chapter loop calls the renderers above; awaits are separate steps.   *)

\* most chapters of a book
MaxChapters == 2

APIError(status, type, field) == [status |-> status, type |-> type, field |-> field]

ChapterContents ==
    {<<>>}
    \cup {<<Chunk(k, <<>>, "", "")>> : k \in {"blank", "p", "fence", "hr", "html_block"}}
    \cup {<<Chunk("h", <<"h", "2">>, "", "")>>, <<Chunk("bq", <<>>, "", "p")>>,
          <<Chunk("li", <<>>, "ordered", "p")>>, <<Chunk("li", <<>>, "bullet", "p")>>}

\* a chapter without a title occurs with one content only
Chapters ==
    {[title |-> <<"T">>, content |-> c] : c \in ChapterContents}
    \cup {[title |-> <<>>, content |-> <<Chunk("p", <<>>, "", "")>>]}

Books ==
    [found : {TRUE}, userId : {"u1"}, title : {<<"M", "y", " ", "B", "k", "!">>},
     subtitle : {<<>>, <<"S">>}, author : {<<"A">>}, coverImageUrl : {"", "url"},
     chapters : UNION {[1..n -> Chapters] : n \in 0..MaxChapters}]

\* longest title of the books that differ in their title only
MaxTitle == 3

\* an upper-case and a lower-case letter, a digit, a space, a punctuation
\* mark, and three characters outside ASCII
TitleChars == {"M", "y", "7", " ", "!", "U+00C9", "U+0130", "U+1F600"}

Titles == UNION {[1..n -> TitleChars] : n \in 1..MaxTitle}

\* a book without chapters and cover, titled t
TitledBook(t) ==
    [found |-> TRUE, userId |-> "u1", title |-> t, subtitle |-> <<>>,
     author |-> <<"A">>, coverImageUrl |-> "", chapters |-> <<>>]

DefaultBook ==
    [found |-> TRUE, userId |-> "u1", title |-> <<"M", "y", " ", "B", "k", "!">>,
     subtitle |-> <<>>, author |-> <<"A">>, coverImageUrl |-> "",
     chapters |-> <<[title |-> <<"T">>, content |-> <<Chunk("p", <<>>, "", "")>>]>>]

\* chapter.title || `Chapter ${index + 1}`
ChapterTitleText(chapter, idx) ==
    IF chapter.title # <<>> THEN chapter.title
    ELSE <<"C", "h", "a", "p", "t", "e", "r", " ">> \o NumberToString(idx + 1)

Mark(what, chapter, at) == [what |-> what, chapter |-> chapter, at |-> at]

PageBreakParagraph == [NoParagraphOptions EXCEPT !.pageBreakBefore = TRUE]

Fail(err) == xpc' = "threw" /\ thrown' = err

RenderersUnchanged == UNCHANGED <<docxVars, pdfVars>>
HarnessUnchanged   == UNCHANGED <<inlineVars, callerVars>>

(* ---- both services: the checks before any output ---- *)

\* if (!bookId) throw 400 InvalidInput
ExportCheckBookId ==
    /\ xpc = "start"
    /\ IF request.bookId = ""
       THEN Fail(APIError(400, "InvalidInput", "bookId"))
       ELSE xpc' = "find" /\ UNCHANGED thrown
    /\ UNCHANGED <<format, request, book, sections, index, res, marks, rendered>>
    /\ RenderersUnchanged /\ HarnessUnchanged

\* await findBookById(objectId); 404 when there is none, 403 for another owner
ExportFindBook ==
    /\ xpc = "find"
    /\ IF ~book.found THEN Fail(APIError(404, "NotFound", "bookId"))
       ELSE IF book.userId # request.userId THEN Fail(APIError(403, "Forbidden", "userId"))
       ELSE /\ xpc' = IF format = "docx" THEN "cover" ELSE "create"
            /\ UNCHANGED thrown
    /\ UNCHANGED <<format, request, book, sections, index, res, marks, rendered>>
    /\ RenderersUnchanged /\ HarnessUnchanged

(* ---- exportAsDocxService ---- *)

CoverParagraphs ==
    <<[NoParagraphOptions EXCEPT !.before = 1000],
      [NoParagraphOptions EXCEPT !.image = TRUE, !.alignment = "CENTER", !.after = 400],
      PageBreakParagraph>>

\* the cover step with a failed fetch skipped over
DocxCoverSkipsFailure ==
    /\ xpc = "cover" /\ format = "docx"
    /\ IF book.coverImageUrl = ""
       THEN xpc' = "title" /\ UNCHANGED <<sections, marks, thrown>>
       ELSE \/ /\ sections' = sections \o CoverParagraphs
               /\ marks' = Append(marks, Mark("cover", 0, Len(sections)))
               /\ xpc' = "title"
               /\ UNCHANGED thrown
            \/ /\ xpc' = "title"
               /\ UNCHANGED <<sections, marks, thrown>>
    /\ UNCHANGED <<format, request, book, index, res, rendered>>
    /\ RenderersUnchanged /\ HarnessUnchanged

\* the cover image: nothing without a URL; fetched, it gives three blocks;
\* a failed fetch or decode throws ImageProcessingError
DocxCover ==
    /\ xpc = "cover" /\ format = "docx"
    /\ IF book.coverImageUrl = ""
       THEN xpc' = "title" /\ UNCHANGED <<sections, marks, thrown>>
       ELSE \/ /\ sections' = sections \o CoverParagraphs
               /\ marks' = Append(marks, Mark("cover", 0, Len(sections)))
               /\ xpc' = "title"
               /\ UNCHANGED thrown
            \/ /\ Fail(APIError(500, "ImageProcessingError", "coverImageUrl"))
               /\ UNCHANGED <<sections, marks>>
    /\ UNCHANGED <<format, request, book, index, res, rendered>>
    /\ RenderersUnchanged /\ HarnessUnchanged

DocxTitleParagraphs(b) ==
    <<[NoParagraphOptions EXCEPT
          !.children = <<TextRun(b.title, TRUE, FALSE, DOCX_STYLES.fonts.heading,
                                 DOCX_STYLES.sizes.title * 2, "1a202c")>>,
          !.alignment = "CENTER", !.before = 2000, !.after = 400]>>
    \o (IF Trim(b.subtitle) # <<>>
        THEN <<[NoParagraphOptions EXCEPT
                  !.children = <<TextRun(b.subtitle, FALSE, FALSE,
                                         DOCX_STYLES.fonts.heading,
                                         DOCX_STYLES.sizes.subtitle * 2, "4a5568")>>,
                  !.alignment = "CENTER", !.after = 400]>>
        ELSE <<>>)
    \o <<[NoParagraphOptions EXCEPT
            !.children = <<TextRun(<<"b", "y", " ">> \o b.author, FALSE, FALSE,
                                   DOCX_STYLES.fonts.heading,
                                   DOCX_STYLES.sizes.author * 2, "2d3748")>>,
            !.alignment = "CENTER", !.after = 200],
         [NoParagraphOptions EXCEPT
            !.borderBottom = "4f46e5", !.alignment = "CENTER", !.after = 400]>>

\* title, optional subtitle, author, decorative line
DocxTitlePage ==
    /\ xpc = "title" /\ format = "docx"
    /\ sections' = sections \o DocxTitleParagraphs(book)
    /\ marks' = Append(marks, Mark("title", 0, Len(sections)))
    /\ index' = 0
    /\ xpc' = "chapters"
    /\ UNCHANGED <<format, request, book, thrown, res, rendered>>
    /\ RenderersUnchanged /\ HarnessUnchanged

DocxChapterTitleParagraph(chapter, idx) ==
    [NoParagraphOptions EXCEPT
        !.children = <<TextRun(ChapterTitleText(chapter, idx), TRUE, FALSE,
                               DOCX_STYLES.fonts.heading,
                               DOCX_STYLES.sizes.chapterTitle * 2, "1a202c")>>,
        !.before = DOCX_STYLES.spacing.chapterBefore,
        !.after = DOCX_STYLES.spacing.chapterAfter]

\* a page break before every chapter, the first included
DocxChapterBreakAlways(idx) == <<PageBreakParagraph>>

\* the page break pushed before the chapter at forEach index idx
DocxChapterBreak(idx) == IF idx > 0 THEN <<PageBreakParagraph>> ELSE <<>>

\* forEach body up to the render call: page break, chapter title, then
\* processMarkdownToDocx(chapter.content || "", md)
DocxChapterBegin ==
    /\ xpc = "chapters" /\ format = "docx" /\ index < Len(book.chapters)
    /\ rpc = "idle"
    /\ sections' = sections \o DocxChapterBreak(index)
                     \o <<DocxChapterTitleParagraph(book.chapters[index + 1], index)>>
    /\ marks' = Append(marks, Mark("chapter", index + 1, Len(sections)))
    /\ markdown' = book.chapters[index + 1].content
    /\ rpc' = "called"
    /\ xpc' = "rendering"
    /\ UNCHANGED <<tokens, i, paragraphs, origin, inList, listType, orderedCounter>>
    /\ UNCHANGED <<format, request, book, index, thrown, res, rendered>>
    /\ UNCHANGED pdfVars /\ HarnessUnchanged

\* the rendered blocks put in front of what is already there
PrependBlocks(secs, blocks) == blocks \o secs

\* sections.push(...parsedParagraphs)
AppendBlocks(secs, blocks) == secs \o blocks

\* the forEach body after the render call returned
DocxChapterEnd ==
    /\ xpc = "rendering" /\ format = "docx" /\ rpc = "returned"
    /\ sections' = AppendBlocks(sections, paragraphs)
    /\ rendered' = Append(rendered, paragraphs)
    /\ index' = index + 1
    /\ rpc' = "idle"
    /\ xpc' = "chapters"
    /\ UNCHANGED <<markdown, tokens, i, paragraphs, origin, inList, listType,
                   orderedCounter>>
    /\ UNCHANGED <<format, request, book, thrown, res, marks>>
    /\ UNCHANGED pdfVars /\ HarnessUnchanged

\* the forEach catch leaving the failed chapter out and going on
DocxChapterCatchSkipsChapter ==
    /\ xpc = "rendering" /\ format = "docx" /\ rpc = "threw"
    /\ index' = index + 1
    /\ rendered' = Append(rendered, <<>>)
    /\ rpc' = "idle"
    /\ xpc' = "chapters"
    /\ UNCHANGED <<markdown, tokens, i, paragraphs, origin, inList, listType,
                   orderedCounter>>
    /\ UNCHANGED <<format, request, book, sections, thrown, res, marks>>
    /\ UNCHANGED pdfVars /\ HarnessUnchanged

\* the forEach catch: whatever the chapter threw becomes ContentProcessingError
DocxChapterCatch ==
    /\ xpc = "rendering" /\ format = "docx" /\ rpc = "threw"
    /\ Fail(APIError(500, "ContentProcessingError", "chapter"))
    /\ UNCHANGED <<format, request, book, sections, index, res, marks, rendered>>
    /\ RenderersUnchanged /\ HarnessUnchanged

\* what a rejected Packer.toBuffer throws: not an APIError, it is not caught
SerializationError == [status |-> 0, type |-> "Error", field |-> ""]

\* the headers written before the serialization is awaited
DocxPackWritesFirst ==
    /\ xpc = "chapters" /\ format = "docx" /\ index >= Len(book.chapters)
    /\ res' = [res EXCEPT !.headers = @ \o <<<<"Content-Type", <<"docx">>>>>>]
    /\ \/ xpc' = "send" /\ UNCHANGED thrown
       \/ Fail(SerializationError)
    /\ UNCHANGED <<format, request, book, sections, index, marks, rendered>>
    /\ RenderersUnchanged /\ HarnessUnchanged

\* new Document(...); await Packer.toBuffer(doc), which resolves or rejects
DocxPack ==
    /\ xpc = "chapters" /\ format = "docx" /\ index >= Len(book.chapters)
    /\ \/ xpc' = "send" /\ UNCHANGED thrown
       \/ Fail(SerializationError)
    /\ UNCHANGED <<format, request, book, sections, index, res, marks, rendered>>
    /\ RenderersUnchanged /\ HarnessUnchanged

UpperCaseLetters ==
    <<"A", "B", "C", "D", "E", "F", "G", "H", "I", "J", "K", "L", "M",
      "N", "O", "P", "Q", "R", "S", "T", "U", "V", "W", "X", "Y", "Z">>

LowerCaseLetters ==
    <<"a", "b", "c", "d", "e", "f", "g", "h", "i", "j", "k", "l", "m",
      "n", "o", "p", "q", "r", "s", "t", "u", "v", "w", "x", "y", "z">>

IsUpperCase(c) == \E k \in 1..Len(UpperCaseLetters) : UpperCaseLetters[k] = c
IsLowerCase(c) == \E k \in 1..Len(LowerCaseLetters) : LowerCaseLetters[k] = c

\* a string is a sequence of characters; a character outside ASCII is named
\* by its code point.  String.prototype.toLowerCase maps a character to the
\* UTF-16 code units of its lower-case form: one unit for most characters,
\* two for U+0130 (i and the combining dot U+0307); a character outside the
\* BMP (U+1F600) is its two surrogates
toLowerCase(c) ==
    IF IsUpperCase(c)
    THEN <<LowerCaseLetters[CHOOSE k \in 1..Len(UpperCaseLetters) : UpperCaseLetters[k] = c]>>
    ELSE CASE c = "U+00C9"  -> <<"U+00E9">>
           [] c = "U+0130"  -> <<"i", "U+0307">>
           [] c = "U+1F600" -> <<"U+D83D", "U+DE00">>
           [] OTHER         -> <<c>>

RECURSIVE LowerCased(_)
LowerCased(str) ==
    IF str = <<>> THEN <<>> ELSE toLowerCase(Head(str)) \o LowerCased(Tail(str))

\* the class [a-zA-Z0-9]
IsDigit(u) == \E k \in 1..Len(DigitChars) : DigitChars[k] = u

IsAlphaNumeric(u) == IsUpperCase(u) \/ IsLowerCase(u) \/ IsDigit(u)

\* the title as the file name has it, without lower-casing
FileNameKeepsCase(title, ext) ==
    [k \in 1..Len(title) |-> IF IsAlphaNumeric(title[k]) THEN title[k] ELSE "_"] \o ext

\* title.toLowerCase().replace(/[^a-zA-Z0-9]/g, "_") followed by the extension;
\* the regular expression has no u flag, it replaces code unit by code unit
FileName(title, ext) ==
    LET units == LowerCased(title)
    IN  [k \in 1..Len(units) |-> IF IsAlphaNumeric(units[k]) THEN units[k] ELSE "_"]
        \o ext

\* the three headers, then res.end(buffer)
DocxSend ==
    /\ xpc = "send" /\ format = "docx"
    /\ res' = [res EXCEPT
                 !.headers = @ \o <<<<"Content-Type", <<"docx">>>>,
                                    <<"Content-Disposition",
                                      FileName(book.title, <<".", "d", "o", "c", "x">>)>>,
                                    <<"Content-Length", NumberToString(Len(sections))>>>>,
                 !.body = sections,
                 !.ended = TRUE]
    /\ xpc' = "done"
    /\ UNCHANGED <<format, request, book, sections, index, thrown, marks, rendered>>
    /\ RenderersUnchanged /\ HarnessUnchanged

ExportDocx ==
    \/ DocxCover \/ DocxTitlePage \/ DocxChapterBegin \/ DocxChapterEnd
    \/ DocxChapterCatch \/ DocxPack \/ DocxSend

(* ---- exportAsPDFService ---- *)

\* new PDFDocument, the two headers, doc.pipe(res)
PdfCreate ==
    /\ xpc = "create" /\ format = "pdf"
    /\ doc' = NewPDFDocument
    /\ res' = [res EXCEPT
                 !.headers = @ \o <<<<"Content-Type", <<"pdf">>>>,
                                    <<"Content-Disposition",
                                      FileName(book.title, <<".", "p", "d", "f">>)>>>>,
                 !.piped = TRUE]
    /\ xpc' = "cover"
    /\ UNCHANGED <<pdfTokens, pdfI, pdfInList, pdfListType, orderedListCounter, pdfPc>>
    /\ UNCHANGED <<format, request, book, sections, index, thrown, marks, rendered>>
    /\ UNCHANGED docxVars /\ HarnessUnchanged

\* the cover image: doc.image then doc.addPage; a failed fetch throws
PdfCover ==
    /\ xpc = "cover" /\ format = "pdf"
    /\ IF book.coverImageUrl = ""
       THEN xpc' = "title" /\ UNCHANGED <<doc, marks, thrown>>
       ELSE \/ /\ doc' = DrawOp(DrawOp(doc, "image", 0), "addPage", 0)
               /\ marks' = Append(marks, Mark("cover", 0, Len(doc.page)))
               /\ xpc' = "title"
               /\ UNCHANGED thrown
            \/ /\ Fail(APIError(500, "ImageProcessingError", "coverImageUrl"))
               /\ UNCHANGED <<doc, marks>>
    /\ UNCHANGED <<pdfTokens, pdfI, pdfInList, pdfListType, orderedListCounter, pdfPc>>
    /\ UNCHANGED <<format, request, book, sections, index, res, rendered>>
    /\ UNCHANGED docxVars /\ HarnessUnchanged

Styled(d, font, size, color) == SetFillColor(SetFontSize(SetFont(d, font), size), color)

\* title, moveDown(2), optional subtitle and moveDown(1), author
PdfTitlePageDoc(d, b) ==
    LET d1 == MoveDown(
                  DrawText(Styled(d, TYPOGRAPHY.fonts.sansBold, TYPOGRAPHY.sizes.title,
                                  TYPOGRAPHY.colors.heading),
                           b.title, TextOptions("center", 0, 0, "unset")),
                  24)
        d2 == IF Trim(b.subtitle) # <<>>
              THEN MoveDown(
                       DrawText(Styled(d1, TYPOGRAPHY.fonts.sans, TYPOGRAPHY.sizes.h2,
                                       TYPOGRAPHY.colors.text),
                                b.subtitle, TextOptions("center", 0, 0, "unset")),
                       12)
              ELSE d1
    IN  DrawText(Styled(d2, TYPOGRAPHY.fonts.sans, TYPOGRAPHY.sizes.author,
                        TYPOGRAPHY.colors.text),
                 <<"b", "y", " ">> \o b.author, TextOptions("center", 0, 0, "unset"))

PdfTitlePage ==
    /\ xpc = "title" /\ format = "pdf"
    /\ doc' = PdfTitlePageDoc(doc, book)
    /\ marks' = Append(marks, Mark("title", 0, Len(doc.page)))
    /\ index' = 0
    /\ xpc' = "chapters"
    /\ UNCHANGED <<pdfTokens, pdfI, pdfInList, pdfListType, orderedListCounter, pdfPc>>
    /\ UNCHANGED <<format, request, book, sections, thrown, res, rendered>>
    /\ UNCHANGED docxVars /\ HarnessUnchanged

\* the new page started for the chapter at forEach index idx
PdfChapterBreak(d, idx) == DrawOp(d, "addPage", 0)

\* doc.addPage(), the chapter title, moveDown(1.5)
PdfChapterHeadDoc(d, chapter, idx) ==
    MoveDown(
        DrawText(Styled(PdfChapterBreak(d, idx), TYPOGRAPHY.fonts.sansBold,
                        TYPOGRAPHY.sizes.chapterTitle, TYPOGRAPHY.colors.heading),
                 ChapterTitleText(chapter, idx), TextOptions("left", 0, 0, "unset")),
        18)

\* forEach body: new page, chapter title, then renderMarkdown when the content
\* is more than whitespace
PdfChapterBegin ==
    /\ xpc = "chapters" /\ format = "pdf" /\ index < Len(book.chapters)
    /\ pdfPc = "idle"
    /\ doc' = PdfChapterHeadDoc(doc, book.chapters[index + 1], index)
    /\ marks' = Append(marks, Mark("chapter", index + 1, Len(doc.page)))
    /\ IF ~TrimsToEmpty(book.chapters[index + 1].content)
       THEN /\ markdown' = book.chapters[index + 1].content
            /\ pdfPc' = "called"
            /\ xpc' = "rendering"
            /\ UNCHANGED <<index, rendered>>
       ELSE /\ index' = index + 1
            /\ rendered' = Append(rendered, <<>>)
            /\ UNCHANGED <<markdown, pdfPc, xpc>>
    /\ UNCHANGED <<pdfTokens, pdfI, pdfInList, pdfListType, orderedListCounter>>
    /\ UNCHANGED <<tokens, i, paragraphs, origin, inList, listType, orderedCounter, rpc>>
    /\ UNCHANGED <<format, request, book, sections, thrown, res>>
    /\ HarnessUnchanged

PdfChapterEnd ==
    /\ xpc = "rendering" /\ format = "pdf" /\ pdfPc = "returned"
    /\ rendered' = Append(rendered,
                          SubSeq(doc.page, marks[Len(marks)].at + 4, Len(doc.page)))
    /\ index' = index + 1
    /\ pdfPc' = "idle"
    /\ xpc' = "chapters"
    /\ UNCHANGED <<pdfTokens, pdfI, pdfInList, pdfListType, orderedListCounter, doc>>
    /\ UNCHANGED <<format, request, book, sections, thrown, res, marks>>
    /\ UNCHANGED docxVars /\ HarnessUnchanged

\* the forEach catch: whatever the chapter threw becomes ContentProcessingError
PdfChapterCatch ==
    /\ xpc = "rendering" /\ format = "pdf" /\ pdfPc = "threw"
    /\ Fail(APIError(500, "ContentProcessingError", "chapter"))
    /\ UNCHANGED <<format, request, book, sections, index, res, marks, rendered>>
    /\ RenderersUnchanged /\ HarnessUnchanged

\* doc.end(): the page stream is closed and with it the piped response
PdfEnd ==
    /\ xpc = "chapters" /\ format = "pdf" /\ index >= Len(book.chapters)
    /\ res' = [res EXCEPT !.body = doc.page, !.ended = TRUE]
    /\ xpc' = "done"
    /\ UNCHANGED <<format, request, book, sections, index, thrown, marks, rendered>>
    /\ RenderersUnchanged /\ HarnessUnchanged

ExportPdf ==
    \/ PdfCreate \/ PdfCover \/ PdfTitlePage \/ PdfChapterBegin \/ PdfChapterEnd
    \/ PdfChapterCatch \/ PdfEnd

Requests ==
    {[bookId |-> "b1", userId |-> "u1"], [bookId |-> "", userId |-> "u1"],
     [bookId |-> "b1", userId |-> "u2"]}

InitExport ==
    /\ ControllerIdle /\ AuthIdle
    /\ InlineIdle /\ DocxIdle /\ PdfIdle
    /\ callsLeft = 0 /\ results = <<>> /\ eventLoop = SingleRequest
    /\ format \in {"docx", "pdf"}
    /\ request \in Requests
    /\ book \in Books \cup {NoBook} \cup {TitledBook(t) : t \in Titles}
    /\ (request # [bookId |-> "b1", userId |-> "u1"]) => book = DefaultBook
    /\ sections = <<>> /\ index = 0 /\ xpc = "start" /\ thrown = NoError
    /\ res = NewResponse /\ marks = <<>> /\ rendered = <<>>

NextExport ==
    \/ ExportCheckBookId \/ ExportFindBook
    \/ ExportDocx \/ ExportPdf
    \/ DocxRender \/ PdfRender

SpecExport == InitExport /\ [][NextExport]_vars

-----------------------------------------------------------------------------
(* Two export requests on one event loop.  A request runs until it awaits   *)
(* (book lookup, cover fetch, serialization) or ends; then the other may    *)
(* run.  What a suspended request keeps is what its closure holds: the       *)
(* service's parameters and locals, and its PDFDocument.  The renderers'    *)
(* locals live only during a call, and no call is open across an await.     *)

\* the running request's parameters and locals
Running ==
    [format |-> format, request |-> request, book |-> book, sections |-> sections,
     index |-> index, xpc |-> xpc, thrown |-> thrown, res |-> res, marks |-> marks,
     rendered |-> rendered, doc |-> doc]

\* a request as the route hands it to the service
NewRequest(job) ==
    [format |-> job.format, request |-> [bookId |-> "b1", userId |-> "u1"],
     book |-> job.book, sections |-> <<>>, index |-> 0, xpc |-> "start",
     thrown |-> NoError, res |-> NewResponse, marks |-> <<>>, rendered |-> <<>>,
     doc |-> NewPDFDocument]

\* the request that goes on running is c
Resume(c) ==
    /\ format' = c.format /\ request' = c.request /\ book' = c.book
    /\ sections' = c.sections /\ index' = c.index /\ xpc' = c.xpc
    /\ thrown' = c.thrown /\ res' = c.res /\ marks' = c.marks
    /\ rendered' = c.rendered /\ doc' = c.doc

Finished(c) == c.xpc \in {"done", "threw"}

\* the request is not running: not yet begun, awaiting, or ended
Suspendable(c) ==
    \/ c.xpc \in {"start", "find"}
    \/ c.xpc = "cover" /\ c.book.coverImageUrl # ""
    \/ c.format = "docx" /\ c.xpc = "chapters" /\ c.index >= Len(c.book.chapters)
    \/ Finished(c)

\* no renderer call is open; a call that threw has left its frame
NoOpenCall == rpc \in {"idle", "threw"} /\ pdfPc \in {"idle", "threw"}

CallFramesGone ==
    /\ rpc' = "idle" /\ pdfPc' = "idle"
    /\ UNCHANGED <<markdown, tokens, i, paragraphs, origin, inList, listType,
                   orderedCounter>>
    /\ UNCHANGED <<pdfTokens, pdfI, pdfInList, pdfListType, orderedListCounter>>
    /\ UNCHANGED <<inlineVars, callsLeft, results, controllerVars, authVars>>

OneChapterBook(c) ==
    [found |-> TRUE, userId |-> "u1", title |-> <<"M", "y", " ", "B", "k", "!">>,
     subtitle |-> <<>>, author |-> <<"A">>, coverImageUrl |-> "url",
     chapters |-> <<[title |-> <<"T">>, content |-> c]>>]

TwoChapterBook ==
    [found |-> TRUE, userId |-> "u1", title |-> <<"B", "2">>,
     subtitle |-> <<"S">>, author |-> <<"A">>, coverImageUrl |-> "url",
     chapters |-> <<[title |-> <<>>, content |-> <<Chunk("p", <<>>, "", "")>>],
                    [title |-> <<"T">>,
                     content |-> <<Chunk("li", <<>>, "ordered", "p")>>]>>]

FirstJobs ==
    {[format |-> f, book |-> OneChapterBook(c)] :
        f \in {"docx", "pdf"}, c \in ChapterContents}

SecondJobs == {[format |-> f, book |-> TwoChapterBook] : f \in {"docx", "pdf"}}

\* a request ran alone to its end: its response is kept, and the next
\* request runs alone, or both start together
AloneDone ==
    /\ eventLoop.phase = "alone" /\ xpc = "done" /\ NoOpenCall
    /\ IF eventLoop.turn = 1
       THEN /\ eventLoop' = [eventLoop EXCEPT !.turn = 2, !.alone[1] = res]
            /\ Resume(NewRequest(eventLoop.jobs[2]))
       ELSE /\ eventLoop' = [eventLoop EXCEPT
                                !.phase = "both", !.turn = 1, !.alone[2] = res,
                                !.suspended = NewRequest(eventLoop.jobs[2])]
            /\ Resume(NewRequest(eventLoop.jobs[1]))
    /\ CallFramesGone

\* the running request shares its sections array with the other request
SwitchSharesSections ==
    /\ eventLoop.phase = "both"
    /\ Suspendable(Running) /\ NoOpenCall
    /\ ~Finished(eventLoop.suspended)
    /\ eventLoop' = [eventLoop EXCEPT
                        !.turn = 3 - @,
                        !.suspended = Running,
                        !.interleaved = @ \/ (xpc \notin {"start", "done", "threw"}
                                               /\ eventLoop.suspended.xpc # "start")]
    /\ Resume([eventLoop.suspended EXCEPT !.sections = sections])
    /\ CallFramesGone

\* the running request awaits or has ended, and the event loop goes on with
\* the other request
Switch ==
    /\ eventLoop.phase = "both"
    /\ Suspendable(Running) /\ NoOpenCall
    /\ ~Finished(eventLoop.suspended)
    /\ eventLoop' = [eventLoop EXCEPT
                        !.turn = 3 - @,
                        !.suspended = Running,
                        !.interleaved = @ \/ (xpc \notin {"start", "done", "threw"}
                                               /\ eventLoop.suspended.xpc # "start")]
    /\ Resume(eventLoop.suspended)
    /\ CallFramesGone

InitConcurrent ==
    /\ ControllerIdle /\ AuthIdle
    /\ InlineIdle /\ DocxIdle /\ PdfIdle
    /\ callsLeft = 0 /\ results = <<>>
    /\ \E j1 \in FirstJobs, j2 \in SecondJobs :
          /\ eventLoop = [phase |-> "alone", turn |-> 1, jobs |-> <<j1, j2>>,
                          alone |-> <<NewResponse, NewResponse>>,
                          suspended |-> NewRequest(j2), interleaved |-> FALSE]
          /\ format = j1.format /\ book = j1.book
    /\ request = [bookId |-> "b1", userId |-> "u1"]
    /\ sections = <<>> /\ index = 0 /\ xpc = "start" /\ thrown = NoError
    /\ res = NewResponse /\ marks = <<>> /\ rendered = <<>>

NextConcurrent == NextExport \/ AloneDone \/ Switch

SpecConcurrent == InitConcurrent /\ [][NextConcurrent]_vars

-----------------------------------------------------------------------------
(* The structure of a token stream, read off its open/close nesting *)

IsListOpen(tok)  == tok.type \in {"bullet_list_open", "ordered_list_open"}
IsListClose(tok) == tok.type \in {"bullet_list_close", "ordered_list_close"}

\* the list_open token that encloses position j (closed below it: d lists), or -1
RECURSIVE ListOpenBefore(_, _, _)
ListOpenBefore(toks, j, d) ==
    IF j < 0 THEN -1
    ELSE IF IsListClose(toks[j + 1]) THEN ListOpenBefore(toks, j - 1, d + 1)
    ELSE IF IsListOpen(toks[j + 1])
         THEN IF d = 0 THEN j ELSE ListOpenBefore(toks, j - 1, d - 1)
    ELSE ListOpenBefore(toks, j - 1, d)

EnclosingList(toks, t) == ListOpenBefore(toks, t - 1, 0)

ItemsOf(toks, open) ==
    {t \in 0..(Len(toks) - 1) :
        toks[t + 1].type = "list_item_open" /\ EnclosingList(toks, t) = open}

\* N for the list's Nth item, counted from 1 among that list's own items
Ordinal(toks, t) ==
    Cardinality({u \in ItemsOf(toks, EnclosingList(toks, t)) : u <= t})

ItemsOfKind(toks, openType) ==
    {t \in 0..(Len(toks) - 1) :
        /\ toks[t + 1].type = "list_item_open"
        /\ EnclosingList(toks, t) >= 0
        /\ toks[EnclosingList(toks, t) + 1].type = openType}

BlocksFrom(t) == {p \in 1..Len(paragraphs) : origin[p] = t}

FirstRunText(block) ==
    IF block.children = <<>> THEN <<"(no run)">> ELSE block.children[1].text

-----------------------------------------------------------------------------
(* Claims *)

\* C1: once a chapter is rendered, the block emitted for the Nth item of an
\* ordered list (N counted from 1 among that list's own items) begins with
\* the run "N. ", whatever the items contain.
C1_OrderedItemNumbered ==
    rpc = "returned" =>
        \A t \in ItemsOfKind(tokens, "ordered_list_open") :
            \A p \in BlocksFrom(t) :
                FirstRunText(paragraphs[p])
                    = NumberToString(Ordinal(tokens, t)) \o <<".", " ">>

\* C2: once a chapter is rendered, every item of every bullet list has
\* produced a block, and the first run of each block of a bullet-list item is
\* the bullet mark, never a number and never empty.
C2_BulletItemMarked ==
    rpc = "returned" =>
        \A t \in ItemsOfKind(tokens, "bullet_list_open") :
            /\ BlocksFrom(t) # {}
            /\ \A p \in BlocksFrom(t) : FirstRunText(paragraphs[p]) = BulletMark

(* ---- inline runs ---- *)

NonWs(s) == SelectSeq(s, LAMBDA c : ~IsWs(c))

RECURSIVE RunsText(_)
RunsText(runs) == IF runs = <<>> THEN <<>> ELSE Head(runs).text \o RunsText(Tail(runs))

RECURSIVE TokensText(_)
TokensText(kids) ==
    IF kids = <<>> THEN <<>>
    ELSE (IF Head(kids).type = "text" THEN Head(kids).content ELSE <<>>)
         \o TokensText(Tail(kids))

\* C3: the texts of the emitted runs, concatenated in order and with
\* whitespace removed, are the contents of the text tokens, concatenated in
\* order and with whitespace removed.
C3_NoTextLoss ==
    ipc = "done" => NonWs(RunsText(textRuns)) = NonWs(TokensText(children))

C3_Witness ==
    /\ ipc = "done"
    /\ Len(textRuns) >= 2
    /\ \E k \in 1..Len(children) :
          children[k].type = "text" /\ Trim(children[k].content) = <<>>
    /\ \E k \in 1..Len(children) : children[k].type = "code_inline"

IsMarker(tok) == tok.type \in {"strong_open", "strong_close", "em_open", "em_close"}

\* the text segments between style markers, each with the style in force:
\* bold inside at least one open strong span, italic inside an open em span
RECURSIVE SegmentsLoop(_, _, _, _, _)
SegmentsLoop(kids, strongDepth, emDepth, buf, out) ==
    LET flushed == IF buf = <<>> THEN out
                   ELSE Append(out, [text |-> buf, bold |-> strongDepth > 0,
                                     italics |-> emDepth > 0])
    IN  IF kids = <<>> THEN flushed
        ELSE LET tok == Head(kids)
             IN  CASE tok.type = "strong_open" ->
                        SegmentsLoop(Tail(kids), strongDepth + 1, emDepth, <<>>, flushed)
                   [] tok.type = "strong_close" ->
                        SegmentsLoop(Tail(kids), strongDepth - 1, emDepth, <<>>, flushed)
                   [] tok.type = "em_open" ->
                        SegmentsLoop(Tail(kids), strongDepth, emDepth + 1, <<>>, flushed)
                   [] tok.type = "em_close" ->
                        SegmentsLoop(Tail(kids), strongDepth, emDepth - 1, <<>>, flushed)
                   [] tok.type = "text" ->
                        SegmentsLoop(Tail(kids), strongDepth, emDepth,
                                     buf \o tok.content, out)
                   [] OTHER ->
                        SegmentsLoop(Tail(kids), strongDepth, emDepth, buf, out)

Segments(kids) == SegmentsLoop(kids, 0, 0, <<>>, <<>>)

RECURSIVE DepthsStayBalanced(_, _, _)
DepthsStayBalanced(kids, strongDepth, emDepth) ==
    IF strongDepth < 0 \/ emDepth < 0 THEN FALSE
    ELSE IF kids = <<>> THEN strongDepth = 0 /\ emDepth = 0
    ELSE LET t == Head(kids).type
         IN  DepthsStayBalanced(Tail(kids),
                 strongDepth + (IF t = "strong_open" THEN 1 ELSE 0)
                             - (IF t = "strong_close" THEN 1 ELSE 0),
                 emDepth + (IF t = "em_open" THEN 1 ELSE 0)
                         - (IF t = "em_close" THEN 1 ELSE 0))

Balanced(kids) == DepthsStayBalanced(kids, 0, 0)

\* text and style of each run or segment that holds more than whitespace
Visible(seq) ==
    LET kept == SelectSeq(seq, LAMBDA r : NonWs(r.text) # <<>>)
    IN  [k \in 1..Len(kept) |->
            [text |-> NonWs(kept[k].text), bold |-> kept[k].bold,
             italics |-> kept[k].italics]]

\* C4: for a balanced inline sequence the runs are the text segments between
\* style markers, one run per segment, in reading order, each with the style
\* in force for the segment (bold inside strong, italic inside em, plain
\* otherwise).  Stated up to whitespace: whitespace-only segments and the
\* whitespace inside a run are left out of the comparison.
C4_OneRunPerSegment ==
    (ipc = "done" /\ Balanced(children)) => Visible(textRuns) = Visible(Segments(children))

\* the scenario of the claim: five runs, plain, bold, plain, italic, plain
C4_ScenarioFiveRuns ==
    (ipc = "done" /\ children = SegsFrom(ScenarioSegs, 1)) =>
        /\ Len(textRuns) = 5
        /\ [k \in 1..5 |-> <<textRuns[k].bold, textRuns[k].italics>>]
              = <<<<FALSE, FALSE>>, <<TRUE, FALSE>>, <<FALSE, FALSE>>,
                  <<FALSE, TRUE>>, <<FALSE, FALSE>>>>

(* ---- flow-document blocks ---- *)

\* C5: two renders of the same chapter return the same block sequence.
C5_SameBlocksTwice == Len(results) = 2 => results[1] = results[2]

C5_Witness ==
    /\ Len(results) = 2
    /\ Len(results[1]) >= 3
    /\ \E k \in 1..Len(tokens) : tokens[k].type = "ordered_list_open"

IsBlankBlock(block) ==
    /\ block.text = <<>> /\ block.children = <<>> /\ block.heading = ""
    /\ block.borderBottom = "" /\ block.borderLeft = "" /\ block.shading = ""
    /\ ~block.pageBreakBefore /\ ~block.image

TwoItemOrderedList ==
    <<Chunk("li", <<>>, "ordered", "p"), Chunk("li", <<>>, "ordered", "p")>>

\* C6: once a chapter is rendered, each list close has emitted exactly one
\* block, a blank spacer, placed after every item block of the list it
\* closes; a two-item ordered list gives "1. " item, "2. " item, spacer.
C6_SpacerAfterList ==
    rpc = "returned" =>
        /\ \A c \in 0..(Len(tokens) - 1) :
              IsListClose(tokens[c + 1]) =>
                  /\ Cardinality(BlocksFrom(c)) = 1
                  /\ \A p \in BlocksFrom(c) :
                        /\ IsBlankBlock(paragraphs[p])
                        /\ \A q \in 1..Len(paragraphs) :
                              origin[q] \in ItemsOf(tokens, EnclosingList(tokens, c))
                                  => q < p
        /\ markdown = TwoItemOrderedList =>
              /\ Len(paragraphs) = 3
              /\ FirstRunText(paragraphs[1]) = <<"1", ".", " ">>
              /\ FirstRunText(paragraphs[2]) = <<"2", ".", " ">>
              /\ IsBlankBlock(paragraphs[3])

C6_Witness == rpc = "returned" /\ markdown = TwoItemOrderedList /\ Len(paragraphs) = 3

\* C7: once a chapter is rendered, each fence or code_block token has emitted
\* exactly one block, a single Courier New run holding the token's content.
C7_CodeBlockVerbatim ==
    rpc = "returned" =>
        \A t \in 0..(Len(tokens) - 1) :
            tokens[t + 1].type \in {"fence", "code_block"} =>
                /\ Cardinality(BlocksFrom(t)) = 1
                /\ \A p \in BlocksFrom(t) :
                      /\ Len(paragraphs[p].children) = 1
                      /\ paragraphs[p].children[1].text = tokens[t + 1].content
                      /\ paragraphs[p].children[1].font = "Courier New"

\* C8: for empty or whitespace-only content the flow-document renderer
\* returns no block, the drawing-surface renderer draws nothing, and neither
\* raises an error.
C8_EmptyContentNoOutput ==
    TrimsToEmpty(markdown) =>
        /\ rpc # "threw" /\ pdfPc # "threw"
        /\ paragraphs = <<>>
        /\ \A r \in 1..Len(results) : results[r] = <<>>
        /\ doc.page = <<>>

C8_Witness ==
    /\ TrimsToEmpty(markdown) /\ Len(markdown) >= 1
    /\ Len(results) = Renders
    /\ pdfPc = "returned"

-----------------------------------------------------------------------------
(* The assembled output: the blocks of the flow document, or the operations *)
(* drawn on the page stream.                                                *)

Output == IF format = "docx" THEN sections ELSE doc.page

IsPageBreak(x) == IF format = "docx" THEN x.pageBreakBefore ELSE x.op = "addPage"

\* x is the title heading of the chapter at position k of book.chapters
IsChapterTitle(x, k) ==
    IF format = "docx"
    THEN /\ Len(x.children) = 1
         /\ x.children[1].text = ChapterTitleText(book.chapters[k], k - 1)
         /\ x.children[1].bold
         /\ x.children[1].size = DOCX_STYLES.sizes.chapterTitle * 2
    ELSE /\ x.op = "text"
         /\ x.text = ChapterTitleText(book.chapters[k], k - 1)
         /\ x.font = TYPOGRAPHY.fonts.sansBold
         /\ x.fontSize = TYPOGRAPHY.sizes.chapterTitle

\* x is the book title of the title page
IsBookTitle(x) ==
    IF format = "docx"
    THEN /\ Len(x.children) = 1 /\ x.children[1].text = book.title
         /\ x.children[1].size = DOCX_STYLES.sizes.title * 2
    ELSE x.op = "text" /\ x.text = book.title /\ x.fontSize = TYPOGRAPHY.sizes.title

ChapterMarks == SelectSeq(marks, LAMBDA m : m.what = "chapter")
TitleMarks   == SelectSeq(marks, LAMBDA m : m.what = "title")

\* where in the output the title heading of the n-th chapter begun stands:
\* the first title of that chapter after the place the chapter began at
TitlePositions(n) ==
    {p \in (ChapterMarks[n].at + 1)..Len(Output) : IsChapterTitle(Output[p], n)}

HasTitle(n) == TitlePositions(n) # {}

TitlePos(n) == CHOOSE p \in TitlePositions(n) : \A q \in TitlePositions(n) : p <= q

\* the output unit right before the chapter's title heading is a page break
BreakBefore(n) == TitlePos(n) > 1 /\ IsPageBreak(Output[TitlePos(n) - 1])

\* C9 as stated: in both backends chapter k is preceded by a page break
\* exactly when k is greater than 1.
C9_BreakExceptFirstBothBackends ==
    \A n \in 1..Len(ChapterMarks) : HasTitle(n) /\ (BreakBefore(n) <=> n > 1)

\* C9: the flow-document assembler puts a page break before chapter k for
\* every k greater than 1 and none before the first chapter; the
\* drawing-surface assembler starts a new page before every chapter, the
\* first included.
C9_BreakPerBackend ==
    \A n \in 1..Len(ChapterMarks) :
        /\ HasTitle(n)
        /\ format = "docx" => (BreakBefore(n) <=> n > 1)
        /\ format = "pdf"  => BreakBefore(n)

C9_Witness ==
    /\ format = "docx" /\ xpc = "done" /\ res.ended
    /\ Len(book.chapters) = 2 /\ Len(ChapterMarks) = 2
    /\ ~BreakBefore(1) /\ BreakBefore(2)

\* number of output units a chapter's head takes from its title on
AfterTitle == IF format = "docx" THEN 0 ELSE 1

\* first and last position of the content of the n-th finished chapter
ContentFirst(n) == TitlePos(n) + AfterTitle + 1
ContentLast(n)  == TitlePos(n) + AfterTitle + Len(rendered[n])

\* C10: in both backends the title page stands before every chapter, the
\* chapters stand in the order of book.chapters, and each chapter's title
\* heading stands before all output of that chapter's content and after all
\* output of the previous chapter.
C10_OutputOrdered ==
    LET cm == ChapterMarks
    IN  /\ cm # <<>> =>
              /\ Len(TitleMarks) = 1
              /\ TitleMarks[1].at < Len(Output)
              /\ IsBookTitle(Output[TitleMarks[1].at + 1])
              /\ TitleMarks[1].at + 1 < TitlePos(1)
        /\ \A n \in 1..Len(cm) :
              /\ cm[n].chapter = n
              /\ HasTitle(n)
              /\ n > 1 => /\ Len(rendered) >= n - 1
                          /\ ContentLast(n - 1) = cm[n].at
                          /\ cm[n].at < TitlePos(n)
        /\ \A n \in 1..Len(rendered) :
              /\ n <= Len(cm)
              /\ ContentLast(n) <= Len(Output)
              /\ SubSeq(Output, ContentFirst(n), ContentLast(n)) = rendered[n]
        /\ xpc = "done" =>
              /\ Len(cm) = Len(book.chapters)
              /\ Len(rendered) = Len(book.chapters)
              /\ res.body = Output
              /\ Len(cm) > 0 => ContentLast(Len(cm)) = Len(Output)

C10_Witness ==
    /\ xpc = "done" /\ res.ended
    /\ Len(book.chapters) = 2
    /\ rendered[1] # <<>> /\ rendered[2] # <<>>
    /\ rendered[1] # rendered[2]

-----------------------------------------------------------------------------
(* Failures of the export.                                                  *)

IsCoverImage(x) == IF format = "docx" THEN x.image ELSE x.op = "image"

HasCoverImage == \E p \in 1..Len(Output) : IsCoverImage(Output[p])

HasBookTitle == \E p \in 1..Len(Output) : IsBookTitle(Output[p])

\* C11: a book with a cover image URL never gets a title page unless the
\* image was embedded; when the fetch or decode fails the export has ended
\* with ImageProcessingError on coverImageUrl, with no title page and no
\* chapter rendered, and takes no further step.
C11_CoverFailureIsFatal ==
    /\ (book.coverImageUrl # "" /\ (HasBookTitle \/ ChapterMarks # <<>>)) => HasCoverImage
    /\ (book.coverImageUrl # "" /\ xpc \in {"threw", "done"} /\ ~HasCoverImage
          /\ thrown.status \notin {400, 403, 404}) =>
          /\ xpc = "threw"
          /\ thrown = APIError(500, "ImageProcessingError", "coverImageUrl")
          /\ ~HasBookTitle /\ TitleMarks = <<>>
          /\ ChapterMarks = <<>> /\ rendered = <<>>
          /\ ~res.ended
          /\ ~ENABLED NextExport

C11_Witness ==
    /\ xpc = "threw" /\ thrown.type = "ImageProcessingError"
    /\ book.coverImageUrl # "" /\ Len(book.chapters) > 0
    /\ ~HasCoverImage

\* the blocks pushed to sections after the title heading of the chapter begun last
BlocksAfterLastTitle ==
    SubSeq(Output, TitlePos(Len(ChapterMarks)) + AfterTitle + 1, Len(Output))

DocxChapterFailed == format = "docx" /\ rpc = "threw"

\* C12: once building a block has thrown in the flow-document renderer, the
\* renderer takes no further step and hands no block of that chapter to the
\* export (the blocks built so far included); the error it raised is a
\* ContentProcessingError, the export's next step is to fail with a
\* ContentProcessingError, and the failed export never writes the response.
C12_DocxThrowAbortsExport ==
    /\ [](DocxChapterFailed =>
            /\ xpc \in {"rendering", "threw"}
            /\ thrown.status = 500 /\ thrown.type = "ContentProcessingError"
            /\ thrown.field = IF xpc = "rendering" THEN "markdown" ELSE "chapter"
            /\ HasTitle(Len(ChapterMarks))
            /\ BlocksAfterLastTitle = <<>>
            /\ Len(rendered) = Len(ChapterMarks) - 1
            /\ res = NewResponse
            /\ ~ENABLED DocxRender
            /\ xpc = "threw" => ~ENABLED NextExport)
    /\ [][DocxChapterFailed =>
            /\ UNCHANGED <<docxVars, sections, rendered, marks, index, res>>
            /\ xpc' = "threw"]_vars

C12_Witness ==
    /\ DocxChapterFailed /\ xpc = "threw"
    /\ paragraphs # <<>>
    /\ Len(ChapterMarks) = 2 /\ rendered[1] # <<>>

PdfChapterFailed == format = "pdf" /\ pdfPc = "threw"

\* C13: once rendering a chapter has failed in the drawing-surface export,
\* no later token or chapter is drawn, and the error the export fails with
\* is a PDFRenderingError on the field markdown.
C13_PdfFailureTyped ==
    PdfChapterFailed =>
        /\ ~ENABLED PdfRender
        /\ ~ENABLED PdfChapterBegin
        /\ thrown.type = "PDFRenderingError"
        /\ thrown.field = "markdown"

\* C14: in the flow-document export the response is written only by the
\* last step, after every chapter was rendered and the document serialized;
\* until then, and for good when the cover fetch, a chapter render or the
\* serialization has failed, the response is as the export received it.
C14_DocxResponseWrittenLast ==
    format = "docx" =>
        /\ xpc # "done" => res = NewResponse
        /\ xpc = "done" =>
              /\ thrown = NoError
              /\ Len(rendered) = Len(book.chapters)
              /\ res.body = sections /\ res.ended
              /\ Len(res.headers) = 3

C14_Witness ==
    /\ format = "docx" /\ xpc = "threw" /\ thrown = SerializationError
    /\ Len(rendered) = 2 /\ res = NewResponse

-----------------------------------------------------------------------------
(* The list context of the block renderers.                                 *)

ListContextConsistent(inL, lt) ==
    /\ lt \in {"null", "bullet", "ordered"}
    /\ (lt = "null") <=> ~inL

\* C15: in every reachable state of both block renderers listType is null
\* exactly when inList is false, and bullet or ordered exactly when inList
\* is true.
C15_ListContextConsistent ==
    /\ ListContextConsistent(inList, listType)
    /\ ListContextConsistent(pdfInList, pdfListType)

C15_Witness ==
    /\ pdfPc = "loop" /\ pdfInList /\ pdfListType = "ordered"
    /\ Len(results) = Renders
    /\ \E r \in 1..Len(results) : Len(results[r]) >= 2
    /\ \E k \in 1..Len(pdfTokens) : pdfTokens[k].type = "bullet_list_close"

-----------------------------------------------------------------------------
(* The runs of the Inline Run Builder.                                      *)

SameStyle(r1, r2) == r1.bold = r2.bold /\ r1.italics = r2.italics

\* C16: the returned run sequence holds no run with empty text and no two
\* adjacent runs with the same bold and italic flags.
C16_NoEmptyNoRedundantRuns ==
    ipc = "done" =>
        /\ \A r \in 1..Len(textRuns) : textRuns[r].text # <<>>
        /\ \A r \in 1..(Len(textRuns) - 1) : ~SameStyle(textRuns[r], textRuns[r + 1])

-----------------------------------------------------------------------------
(* Requests that interleave.                                                *)

\* C17: of two export requests whose steps interleave at their suspension
\* points, each one that completes has written exactly the response it wrote
\* when it ran alone.
C17_RequestsIsolated ==
    eventLoop.phase = "both" =>
        /\ xpc = "done" => res = eventLoop.alone[eventLoop.turn]
        /\ eventLoop.suspended.xpc = "done" =>
              eventLoop.suspended.res = eventLoop.alone[3 - eventLoop.turn]

C17_Witness ==
    /\ eventLoop.phase = "both" /\ eventLoop.interleaved
    /\ xpc = "done" /\ eventLoop.suspended.xpc = "done"
    /\ format = "docx" /\ eventLoop.suspended.format = "docx"
    /\ res.body # eventLoop.suspended.res.body
    /\ rendered[1] # <<>>

-----------------------------------------------------------------------------
(* The download file name.                                                  *)

HasDisposition == \E h \in 1..Len(res.headers) : res.headers[h][1] = "Content-Disposition"

\* the file name of the Content-Disposition header
DispositionName ==
    res.headers[CHOOSE h \in 1..Len(res.headers) :
                    res.headers[h][1] = "Content-Disposition"][2]

Extension ==
    IF format = "docx" THEN <<".", "d", "o", "c", "x">> ELSE <<".", "p", "d", "f">>

\* what the name has for one character of the title, character by character
NameChar(c) ==
    IF IsUpperCase(c)
    THEN LowerCaseLetters[CHOOSE k \in 1..Len(UpperCaseLetters) : UpperCaseLetters[k] = c]
    ELSE IF IsLowerCase(c) \/ IsDigit(c) THEN c
    ELSE "_"

\* C18 as stated: the name is the title, character for character, with
\* upper-case letters lower-cased and every character that is no ASCII letter
\* or digit replaced by one underscore, then the extension.
C18_FileNamePerCharacter ==
    HasDisposition =>
        DispositionName = [k \in 1..Len(book.title) |-> NameChar(book.title[k])]
                            \o Extension

\* what the name has for one character of the title, in UTF-16 code units
NameUnits(c) ==
    CASE c = "U+0130"  -> <<"i", "_">>
      [] c = "U+1F600" -> <<"_", "_">>
      [] OTHER         -> <<NameChar(c)>>

RECURSIVE NameOf(_)
NameOf(title) ==
    IF title = <<>> THEN <<>> ELSE NameUnits(Head(title)) \o NameOf(Tail(title))

SingleUnit(title) == \A k \in 1..Len(title) : title[k] \notin {"U+0130", "U+1F600"}

\* C18: the name is made code unit by code unit from the lower-cased title:
\* ASCII letters lower-cased, digits kept, every other UTF-16 code unit one
\* underscore, then the extension .docx or .pdf.  It has the title's length
\* plus the extension unless the title holds a character outside the BMP
\* (two underscores) or one whose lower-case form is longer (U+0130: i and
\* an underscore).
C18_FileNamePerCodeUnit ==
    HasDisposition =>
        /\ DispositionName = NameOf(book.title) \o Extension
        /\ SingleUnit(book.title) =>
              Len(DispositionName) = Len(book.title) + Len(Extension)
        /\ \A k \in 1..(Len(DispositionName) - Len(Extension)) :
              \/ IsLowerCase(DispositionName[k]) \/ IsDigit(DispositionName[k])
              \/ DispositionName[k] = "_"

C18_Witness ==
    /\ HasDisposition /\ res.ended
    /\ book.title = <<"M", "!", "U+1F600">>
    /\ DispositionName = <<"m", "_", "_", "_">> \o Extension

-----------------------------------------------------------------------------
(* What the drawing-surface renderer puts on the page.                      *)

\* the text operations on the page that draw exactly the string s
TextOps(s) ==
    {p \in 1..Len(doc.page) : doc.page[p].op = "text" /\ doc.page[p].text = s}

IsBulletOp(x) ==
    /\ x.op = "text" /\ x.options.continued = "true" /\ x.options.indent = 20
    /\ \/ x.text = BulletMark
       \/ Len(x.text) >= 3 /\ SubSeq(x.text, Len(x.text) - 1, Len(x.text)) = <<".", " ">>

\* C19: once a chapter is drawn, each list item that has inline content has
\* that content on the page exactly once, right after the item's bullet
\* literal drawn as continued text.
C19_ItemInlineDrawnOnce ==
    pdfPc = "returned" =>
        \A t \in 0..(Len(pdfTokens) - 1) :
            (PAt(t).type = "list_item_open" /\ FindItemInline(t + 1) >= 0) =>
                LET s == PAt(FindItemInline(t + 1)).content
                IN  /\ Cardinality(TextOps(s)) = 1
                    /\ \A p \in TextOps(s) : p > 1 /\ IsBulletOp(doc.page[p - 1])

\* the inline tokens between a blockquote_open and the next blockquote_close
QuoteInlines ==
    {k \in 0..(Len(pdfTokens) - 1) :
        /\ PAt(k).type = "inline"
        /\ \E t \in 0..(k - 1) :
              /\ PAt(t).type = "blockquote_open"
              /\ \A u \in t..k : PAt(u).type # "blockquote_close"}

\* C20 as stated: once a chapter is drawn, no text of a blockquote's content
\* is on the page.
C20_QuoteContentNotDrawn ==
    pdfPc = "returned" => \A k \in QuoteInlines : TextOps(PAt(k).content) = {}

IsBodyText(x) ==
    /\ x.font = TYPOGRAPHY.fonts.serif /\ x.fontSize = TYPOGRAPHY.sizes.body
    /\ x.fillColor = TYPOGRAPHY.colors.text
    /\ x.options.align = "justify" /\ x.options.indent = 0

\* C20: the blockquote_open and blockquote_close tokens draw nothing, and
\* each paragraph between them is drawn once, as an ordinary body paragraph
\* without any blockquote styling.
C20_QuoteDrawnAsParagraphs ==
    /\ [](pdfPc = "returned" =>
            \A k \in QuoteInlines :
                /\ Cardinality(TextOps(PAt(k).content)) = 1
                /\ \A p \in TextOps(PAt(k).content) : IsBodyText(doc.page[p]))
    /\ [][(InPdfLoop /\ PAt(pdfI).type \in {"blockquote_open", "blockquote_close"})
            => (doc' = doc \/ pdfPc' = "threw")]_vars

C20_Witness ==
    /\ pdfPc = "returned"
    /\ Cardinality(QuoteInlines) = 2
    /\ \A k \in QuoteInlines : Cardinality(TextOps(PAt(k).content)) = 1

-----------------------------------------------------------------------------
(* The export routes and their controllers.  A request reaches a controller  *)
(* after authenticateMiddleware and validateRequestMiddleware: req.user is   *)
(* set and req.params holds the route's parameters, bookId non-empty.        *)

\* router.route("/:bookId/pdf") and router.route("/:bookId/docx"): the one
\* route parameter is bookId
RouteParams == {"bookId"}

\* exportPdfSchema / exportDocxSchema: params.bookId is a string of length >= 1
ValidBookIds == {"b1", "b2"}

RoutedRequests ==
    [route : {"pdf", "docx"}, params : [RouteParams -> ValidBookIds],
     userId : {"u1", "u2"}]

\* req.params[name]: undefined for a name the route does not declare
Param(name) == IF name \in DOMAIN req.params THEN req.params[name] ELSE "undefined"

\* !bookId
Falsy(v) == v \in {"", "undefined"}

\* if (!bookId) return next(new APIError(400, ...));
\* await export...Service(bookId, userId, res);
ControllerEnter(bookId, fmt) ==
    /\ IF Falsy(bookId)
       THEN /\ nextArg' = APIError(400, "InvalidInput", "bookId")
            /\ cpc' = "next"
            /\ UNCHANGED <<format, request, xpc>>
       ELSE /\ format' = fmt
            /\ request' = [bookId |-> bookId, userId |-> req.userId]
            /\ xpc' = "start"
            /\ cpc' = "awaiting"
            /\ UNCHANGED nextArg
    /\ UNCHANGED <<req, attempts, book, sections, index, thrown, res, marks, rendered>>
    /\ UNCHANGED <<inlineVars, docxVars, pdfVars, callsLeft, results, eventLoop, authVars>>

exportAsPDFController ==
    /\ cpc = "start" /\ req.route = "pdf"
    /\ ControllerEnter(Param("bookId"), "pdf")

exportAsDocxController ==
    /\ cpc = "start" /\ req.route = "docx"
    /\ ControllerEnter(Param("id"), "docx")

\* the service returned: successResponse(res, 200, ...), which is
\* res.status(200).json(...), whatever the service did with the response
ControllerSuccess ==
    /\ cpc = "awaiting" /\ xpc = "done"
    /\ attempts' = Append(attempts, [statusCode |-> 200, route |-> req.route,
                                     afterEnd |-> res.ended])
    /\ cpc' = "responded"
    /\ UNCHANGED <<req, nextArg, exportVars>>
    /\ UNCHANGED <<inlineVars, docxVars, pdfVars, callsLeft, results, eventLoop, authVars>>

InitController ==
    /\ InlineIdle /\ DocxIdle /\ PdfIdle /\ AuthIdle
    /\ callsLeft = 0 /\ results = <<>> /\ eventLoop = SingleRequest
    /\ req \in RoutedRequests
    /\ cpc = "start" /\ nextArg = NoError /\ attempts = <<>>
    /\ book \in Books \cup {NoBook}
    /\ (req.userId # "u1" \/ req.params.bookId # "b1") => book = DefaultBook
    /\ format = "none" /\ request = [bookId |-> "", userId |-> ""]
    /\ sections = <<>> /\ index = 0 /\ xpc = "idle" /\ thrown = NoError
    /\ res = NewResponse /\ marks = <<>> /\ rendered = <<>>

\* the flow-document service is left out: no routed request reaches it
NextController ==
    \/ exportAsPDFController \/ exportAsDocxController \/ ControllerSuccess
    \/ ExportCheckBookId \/ ExportFindBook \/ ExportPdf \/ PdfRender

\* Node runs every continuation that is ready: a request in flight is never
\* left waiting while a step of it can be taken
SpecController ==
    InitController /\ [][NextController]_vars /\ WF_vars(NextController)

-----------------------------------------------------------------------------
(* C21: the continued flag of the segments of one inline span *)

\* pdfkit keeps the next text on the same line only when continued is true
Continues(o) == o.options.continued = "true"

\* C21: when one inline span is drawn as several text segments, every segment
\* except the last is emitted with the continued flag set, and only the last
\* one without it.
C21_AllButLastContinued ==
    ipc = "drawn" =>
        \A p \in 1..Len(doc.page) : Continues(doc.page[p]) <=> p < Len(doc.page)

-----------------------------------------------------------------------------
(* C22: the font of heading text *)

\* the operations the current step adds to the page
NewOps == {p \in (Len(doc.page) + 1)..Len(doc'.page) : TRUE}

\* C22: the text of a heading is drawn in the bold sans heading font at the
\* size of its level: each text segment the heading branch emits is drawn in
\* that font, not in the body font.
C22_HeadingTextInHeadingFont ==
    [][PdfHeading =>
          \A p \in NewOps :
              (doc'.page[p].op = "text" /\ doc'.page[p].text # <<>>) =>
                  /\ doc'.page[p].font = TYPOGRAPHY.fonts.sansBold
                  /\ doc'.page[p].fontSize =
                         PdfHeadingSize(HeadingLevelFromTag(PAt(pdfI).tag))]_vars

-----------------------------------------------------------------------------
(* C23: the cursor of the block-object renderer *)

\* the close token that matches the open token before position j
RECURSIVE MatchingClose(_, _, _, _)
MatchingClose(j, openType, closeType, depth) ==
    IF j >= Len(tokens) THEN -1
    ELSE IF At(j).type = openType
    THEN MatchingClose(j + 1, openType, closeType, depth + 1)
    ELSE IF At(j).type = closeType
    THEN IF depth = 0 THEN j
         ELSE MatchingClose(j + 1, openType, closeType, depth - 1)
    ELSE MatchingClose(j + 1, openType, closeType, depth)

\* one iteration of the loop of processMarkdownToDocx
DocxIteration == InLoop /\ rpc' = "loop" /\ tokens' = tokens

\* the cursor moves forward in every iteration, by one token or by the fixed
\* skip of its branch
C23_CursorAdvances ==
    [][DocxIteration => i' \in {i + 1, i + 3, i + 5}]_vars

\* C23: the renderer walks the token stream once with a strictly increasing
\* cursor; each iteration advances it by one or by the fixed skip of its
\* branch, and a list item or blockquote whose inline lies two ahead consumes
\* the four following tokens so that the next token handled is the one after
\* the matching close.
C23_SkipEndsAfterMatchingClose ==
    [][DocxIteration =>
          /\ i' \in {i + 1, i + 3, i + 5}
          /\ IsListItem =>
                 i' = MatchingClose(i + 1, "list_item_open", "list_item_close", 0) + 1
          /\ IsBlockquote =>
                 i' = MatchingClose(i + 1, "blockquote_open", "blockquote_close", 0) + 1]_vars

-----------------------------------------------------------------------------
(* C24: no inline token is passed over *)

\* the position of the inline token the block paragraphs[p] was built from:
\* one ahead of a heading or paragraph open, two ahead of a list item or
\* blockquote open; -1 for a block built from no inline token
InlineOf(p) ==
    LET t == origin[p]
    IN  IF At(t).type \in {"heading_open", "paragraph_open"} THEN t + 1
        ELSE IF At(t).type \in {"list_item_open", "blockquote_open"} THEN t + 2
        ELSE -1

BlocksOfInline(j) == {p \in 1..Len(paragraphs) : InlineOf(p) = j}

\* C24: once a chapter is rendered, every inline token of the stream has
\* contributed its text to exactly one emitted block; none is passed over,
\* the second and later paragraphs of a list item or blockquote included.
C24_EveryInlineInOneBlock ==
    rpc = "returned" =>
        \A j \in 0..(Len(tokens) - 1) :
            At(j).type = "inline" => Cardinality(BlocksOfInline(j)) = 1

-----------------------------------------------------------------------------
(* C25: the style of every character of a run *)

\* the characters of a sequence of runs or segments, each with its style
RECURSIVE StyledChars(_)
StyledChars(seq) ==
    IF seq = <<>> THEN <<>>
    ELSE [k \in 1..Len(Head(seq).text) |->
             [char |-> Head(seq).text[k], bold |-> Head(seq).bold,
              italics |-> Head(seq).italics]]
         \o StyledChars(Tail(seq))

\* C25: every character of an emitted run carries the style in force where
\* its text token stood: bold exactly when inside at least one open strong
\* span, italic exactly when inside at least one open em span.  Characters
\* are emitted in reading order and only trailing ones are dropped, so the
\* k-th emitted character is the k-th character of the text tokens.
C25_EveryCharacterStyled ==
    (ipc = "done" /\ Balanced(children)) =>
        LET emitted == StyledChars(textRuns)
            stood   == StyledChars(Segments(children))
        IN  /\ Len(emitted) <= Len(stood)
            /\ \A k \in 1..Len(emitted) : emitted[k] = stood[k]

-----------------------------------------------------------------------------
(* C26: the font of every text segment on the page *)

\* the characters of the text tokens as drawn, each with the font of its
\* text operation; inline code is drawn in Courier and is no text token
RECURSIVE DrawnChars(_)
DrawnChars(ops) ==
    IF ops = <<>> THEN <<>>
    ELSE (IF Head(ops).op = "text" /\ Head(ops).font # "Courier"
          THEN [k \in 1..Len(Head(ops).text) |->
                   [char |-> Head(ops).text[k], font |-> Head(ops).font]]
          ELSE <<>>)
         \o DrawnChars(Tail(ops))

\* C26: every text segment inside an open strong span is drawn in the bold
\* font and every one inside an open em span in the italic font, also the
\* text that follows the close of an inner span while the outer one is still
\* open.  Text inside both kinds of span may be in either of the two fonts.
C26_SegmentFontFollowsSpans ==
    (ipc = "drawn" /\ Balanced(children)) =>
        LET drawn == DrawnChars(doc.page)
            stood == StyledChars(Segments(children))
        IN  /\ Len(drawn) = Len(stood)
            /\ \A k \in 1..Len(drawn) :
                  /\ drawn[k].char = stood[k].char
                  /\ (stood[k].bold /\ ~stood[k].italics) =>
                         drawn[k].font = TYPOGRAPHY.fonts.serifBold
                  /\ (stood[k].italics /\ ~stood[k].bold) =>
                         drawn[k].font = TYPOGRAPHY.fonts.serifItalic
                  /\ (stood[k].bold /\ stood[k].italics) =>
                         drawn[k].font \in {TYPOGRAPHY.fonts.serifBold,
                                            TYPOGRAPHY.fonts.serifItalic}

-----------------------------------------------------------------------------
(* C27: the page stream is closed on every path *)

\* C27: every PDF export that has piped the document to the response
\* eventually calls doc.end, on every path through the service, the paths
\* on which the cover fetch or a chapter's rendering fails included.
C27_PipedEventuallyEnded == (res.piped ~> res.ended)

-----------------------------------------------------------------------------
(* C28: the response is completed once *)

\* C28: the response is completed exactly once: after the service has ended
\* the response, no further status, header or body write is attempted on it.
C28_NoWriteAfterServiceEnded ==
    \A k \in 1..Len(attempts) : ~attempts[k].afterEnd

-----------------------------------------------------------------------------
(* C29: the book id on the flow-document route *)

\* C29: an authenticated GET on the DOCX route with a non-empty book id
\* reaches exportAsDocxService with exactly that id, as the PDF route does
\* with its service; the controller does not answer 400 InvalidInput for a
\* request that passed the validation of bookId.
C29_DocxRouteReachesService ==
    (req.route = "docx" /\ cpc \notin {"idle", "start"}) =>
        /\ nextArg = NoError
        /\ format = "docx"
        /\ request.bookId = req.params.bookId

\* the same for the PDF route
C29_PdfRouteReachesService ==
    (req.route = "pdf" /\ cpc \notin {"idle", "start"}) =>
        /\ nextArg = NoError
        /\ format = "pdf"
        /\ request.bookId = req.params.bookId

-----------------------------------------------------------------------------
(* refreshTokenService: calls in flight at once.  Each await hands control   *)
(* back to the event loop, and the database runs one operation at a time.    *)

\* the refreshTokenService calls in flight at once
MaxRefreshCalls == 3

\* refresh tokens that verify: the one of the session and one of another session
OldTokens == {<<"old", 0>>, <<"old", 9>>}

\* jwtLib.generateRefreshToken(...) of call c: a token not issued before
generateRefreshToken(c) == <<"new", c>>

RefreshCall(oldToken) ==
    [pc |-> "start", oldToken |-> oldToken, isToken |-> FALSE,
     newRefreshToken |-> <<>>, error |-> NoError]

RefreshFrame ==
    UNCHANGED <<inlineVars, docxVars, pdfVars, exportVars, callsLeft, results,
                eventLoop, controllerVars>>

\* const isToken = await isTokenExist(oldToken): TokenModel.exists({ token })
RefreshIsTokenExist(c) ==
    /\ refreshCalls[c].pc = "start"
    /\ refreshCalls' = [refreshCalls EXCEPT
                          ![c].isToken = refreshCalls[c].oldToken \in refreshTokens,
                          ![c].pc = "checked"]
    /\ UNCHANGED refreshTokens
    /\ RefreshFrame

\* if (!isToken) throw 401; otherwise the new tokens are generated and the
\* delete of the old one is sent
RefreshCheck(c) ==
    /\ refreshCalls[c].pc = "checked"
    /\ refreshCalls' =
          IF ~refreshCalls[c].isToken
          THEN [refreshCalls EXCEPT
                  ![c].error = APIError(401, "UnauthorizedError", "refreshToken"),
                  ![c].pc = "threw"]
          ELSE [refreshCalls EXCEPT
                  ![c].newRefreshToken = generateRefreshToken(c),
                  ![c].pc = "deleting"]
    /\ UNCHANGED refreshTokens
    /\ RefreshFrame

\* await deleteRefreshToken(oldToken): TokenModel.deleteOne({ token }), which
\* resolves whether or not a document was deleted
deleteRefreshToken(c) ==
    /\ refreshCalls[c].pc = "deleting"
    /\ refreshTokens' = refreshTokens \ {refreshCalls[c].oldToken}
    /\ refreshCalls' = [refreshCalls EXCEPT ![c].pc = "creating"]
    /\ RefreshFrame

\* await createToken({ token: newRefreshToken, ... }); return the new tokens
createToken(c) ==
    /\ refreshCalls[c].pc = "creating"
    /\ refreshTokens' = refreshTokens \cup {refreshCalls[c].newRefreshToken}
    /\ refreshCalls' = [refreshCalls EXCEPT ![c].pc = "returned"]
    /\ RefreshFrame

refreshTokenService(c) ==
    \/ RefreshIsTokenExist(c) \/ RefreshCheck(c)
    \/ deleteRefreshToken(c) \/ createToken(c)

InitRefresh ==
    /\ InlineIdle /\ DocxIdle /\ PdfIdle /\ ExportIdle /\ ControllerIdle
    /\ callsLeft = 0 /\ results = <<>> /\ eventLoop = SingleRequest
    /\ refreshTokens \in SUBSET OldTokens
    /\ refreshCalls \in [1..MaxRefreshCalls -> {RefreshCall(t) : t \in OldTokens}]

NextRefresh == \E c \in 1..MaxRefreshCalls : refreshTokenService(c)

SpecRefresh == InitRefresh /\ [][NextRefresh]_vars

\* the calls that exchanged the stored token t for a new one
Exchanged(t) ==
    {c \in 1..MaxRefreshCalls :
        refreshCalls[c].oldToken = t /\ refreshCalls[c].pc = "returned"}

\* C30: a stored refresh token can be exchanged at most once: across any
\* interleaving of refreshTokenService calls that present the same old token,
\* at most one call succeeds and stores a new token, and every other call
\* fails with 401 Invalid refresh token.
C30_TokenExchangedAtMostOnce ==
    \A t \in OldTokens :
        /\ Cardinality(Exchanged(t)) <= 1
        /\ \A c \in 1..MaxRefreshCalls :
              (refreshCalls[c].oldToken = t /\ refreshCalls[c].pc = "threw") =>
                  refreshCalls[c].error.status = 401

====
